---------------------------- MODULE Spec2Model ----------------------------
(***************************************************************************)
(* Model of the resumi server's analysis endpoints                         *)
(* (src/server/routes/analysis.js): the normalization of the model's raw   *)
(* completion, the POST /analyze pipeline and the GET /:uniqueId lookup.   *)
(*                                                                         *)
(* Representation.                                                         *)
(*  - A string is a run-length encoded character sequence: a sequence of   *)
(*    runs [c |-> character, n |-> count], kept canonical (no empty run,   *)
(*    no two adjacent runs of one character), so that equality of the      *)
(*    representations is equality of the strings, and a text of 60,000     *)
(*    characters is one run.                                               *)
(*  - A number is kept in halves (h stands for h/2), so that fractional    *)
(*    scores such as 7.5 exist.                                            *)
(*  - A JSON value is a record tagged by t: "absent" (undefined), "null",  *)
(*    "bool" (b), "num" (h), "str" (s), "arr" (a) or "obj" (m, a function  *)
(*    from keys to JSON values).                                           *)
(***************************************************************************)
EXTENDS Integers, Sequences, FiniteSets, TLC

VARIABLES
    raw,        \* normalizer: response.choices[0].message.content
    result,     \* normalizer: analysisData after the normalization block
    again,      \* normalizer: the result re-serialized and normalized again
    older,      \* normalizer: analysisData after the older normalization block
    phase       \* normalizer: "idle" | "input" | "normalized" | "refed"

normVars == <<raw, result, again, older, phase>>

(***************************************************************************)
(* Program constants.                                                      *)
(***************************************************************************)
MaxScore == 10
DefaultScore == 7
FallbackAchievements == 6
MaxSummaryLen == 500
MaxListLen == 5
MaxKeywords == 10

(***************************************************************************)
(* Strings.                                                                *)
(***************************************************************************)
Run(c, n) == [c |-> c, n |-> n]

Min(a, b) == IF a < b THEN a ELSE b

Max(a, b) == IF a > b THEN a ELSE b

\* A string literal of the source, given character by character: a run starts
\* wherever the character differs from the one before it.
Lit(chars) ==
    LET starts == {i \in DOMAIN chars : i = 1 \/ chars[i] # chars[i - 1]}
        stop(i) == IF \E j \in starts : j > i
                   THEN CHOOSE j \in starts : j > i /\ \A k \in starts : k > i => j <= k
                   ELSE Len(chars) + 1
        nth(r) == CHOOSE i \in starts : Cardinality({j \in starts : j <= i}) = r
    IN [r \in 1..Cardinality(starts) |-> Run(chars[nth(r)], stop(nth(r)) - nth(r))]

\* s + t
Concat(s, t) ==
    IF s = <<>> THEN t
    ELSE IF t = <<>> THEN s
    ELSE IF s[Len(s)].c = t[1].c
         THEN SubSeq(s, 1, Len(s) - 1) \o <<Run(t[1].c, s[Len(s)].n + t[1].n)>> \o Tail(t)
         ELSE s \o t

\* s.length (by halves of the run sequence, to keep the recursion shallow)
RECURSIVE StrLen(_)
StrLen(s) ==
    IF s = <<>> THEN 0
    ELSE IF Len(s) = 1 THEN s[1].n
    ELSE StrLen(SubSeq(s, 1, Len(s) \div 2)) + StrLen(SubSeq(s, Len(s) \div 2 + 1, Len(s)))

\* s.substring(0, k)
RECURSIVE Substring0(_, _)
Substring0(s, k) ==
    IF s = <<>> \/ k <= 0 THEN <<>>
    ELSE IF Len(s) = 1 THEN <<Run(s[1].c, Min(k, s[1].n))>>
    ELSE LET left == SubSeq(s, 1, Len(s) \div 2)
             right == SubSeq(s, Len(s) \div 2 + 1, Len(s))
         IN IF k <= StrLen(left) THEN Substring0(left, k)
            ELSE left \o Substring0(right, k - StrLen(left))

\* The white space String.prototype.trim removes (of the modelled alphabet).
IsWhite(c) == c \in {" ", "\n"}

RECURSIVE TrimStart(_)
TrimStart(s) == IF s # <<>> /\ IsWhite(Head(s).c) THEN TrimStart(Tail(s)) ELSE s

RECURSIVE TrimEnd(_)
TrimEnd(s) ==
    IF s # <<>> /\ IsWhite(s[Len(s)].c) THEN TrimEnd(SubSeq(s, 1, Len(s) - 1)) ELSE s

\* s.trim()
Trim(s) == TrimEnd(TrimStart(s))

\* The characters of a (short) string, one by one.
RECURSIVE Expand(_)
Expand(s) ==
    IF s = <<>> THEN <<>>
    ELSE [i \in 1..Head(s).n |-> Head(s).c] \o Expand(Tail(s))

(***************************************************************************)
(* JSON values and the JavaScript conversions the normalization block      *)
(* applies to them.                                                        *)
(***************************************************************************)
JAbsent == [t |-> "absent"]

JNull == [t |-> "null"]

JBool(b) == [t |-> "bool", b |-> b]

\* The number h/2.
JNum(h) == [t |-> "num", h |-> h]

\* The whole number n.
JInt(n) == JNum(2 * n)

JStr(s) == [t |-> "str", s |-> s]

JArr(a) == [t |-> "arr", a |-> a]

JObj(m) == [t |-> "obj", m |-> m]

\* obj[key]: undefined when the object has no such own property.
Get(m, key) == IF key \in DOMAIN m THEN m[key] ELSE JAbsent

\* JavaScript truthiness: what `v || d` and `!v` and `s && ...` test.
Truthy(v) ==
    CASE v.t \in {"absent", "null"} -> FALSE
      [] v.t = "bool" -> v.b
      [] v.t = "num" -> v.h # 0
      [] v.t = "str" -> v.s # <<>>
      [] OTHER -> TRUE

DigitChars == <<"0", "1", "2", "3", "4", "5", "6", "7", "8", "9">>

RECURSIVE NatToChars(_)
NatToChars(n) ==
    IF n < 10 THEN <<DigitChars[n + 1]>>
    ELSE NatToChars(n \div 10) \o <<DigitChars[(n % 10) + 1]>>

\* String(number) for the number h/2.
NumToStr(h) ==
    LET a == IF h < 0 THEN -h ELSE h
    IN Lit((IF h < 0 THEN <<"-">> ELSE <<>>)
           \o NatToChars(a \div 2)
           \o (IF a % 2 = 1 THEN <<".", "5">> ELSE <<>>))

IsDigit(c) == \E i \in 1..10 : DigitChars[i] = c

RECURSIVE DigitsValue(_)
DigitsValue(cs) ==
    IF cs = <<>> THEN 0
    ELSE 10 * DigitsValue(SubSeq(cs, 1, Len(cs) - 1))
         + ((CHOOSE i \in 1..10 : DigitChars[i] = cs[Len(cs)]) - 1)

NaN == [k |-> "nan"]

Throws == [k |-> "throw"]

Number(h) == [k |-> "num", h |-> h]

\* Number(string): white space is trimmed, the empty string is 0, a decimal
\* numeral is its value, anything else is NaN. The numerals of the modelled
\* alphabet are of the form  [-] digits [.5] .
StrToNum(s) ==
    LET numeral(cs) ==
            LET neg == cs[1] = "-"
                body == IF neg THEN Tail(cs) ELSE cs
                half == Len(body) >= 3 /\ body[Len(body) - 1] = "."
                        /\ body[Len(body)] = "5"
                int == IF half THEN SubSeq(body, 1, Len(body) - 2) ELSE body
                val == 2 * DigitsValue(int) + (IF half THEN 1 ELSE 0)
            IN IF int = <<>> \/ \E i \in DOMAIN int : ~IsDigit(int[i])
               THEN NaN
               ELSE Number(IF neg THEN -val ELSE val)
        value(t) ==
            IF t = <<>> THEN Number(0)
            ELSE IF \E i \in DOMAIN t : ~(IsDigit(t[i].c) \/ t[i].c \in {"-", "."})
                 THEN NaN
                 ELSE numeral(Expand(t))
    IN value(Trim(s))

\* OrdinaryToPrimitive throws a TypeError when neither toString nor valueOf
\* yields a primitive: for a parsed JSON object that is when it has an own
\* property "toString" (never callable), Object.prototype.valueOf returning
\* the object itself.
NoPrimitive(v) == v.t = "obj" /\ "toString" \in DOMAIN v.m

ObjectObject ==
    Lit(<<"[", "o", "b", "j", "e", "c", "t", " ", "O", "b", "j", "e", "c", "t", "]">>)

\* String(v): [ok |-> TRUE, s |-> the string], or [ok |-> FALSE] for a TypeError.
RECURSIVE ToStr(_)
ToStr(v) ==
    CASE v.t = "absent" -> [ok |-> TRUE, s |-> Lit(<<"u", "n", "d", "e", "f", "i", "n", "e", "d">>)]
      [] v.t = "null" -> [ok |-> TRUE, s |-> Lit(<<"n", "u", "l", "l">>)]
      [] v.t = "bool" ->
            [ok |-> TRUE,
             s |-> IF v.b THEN Lit(<<"t", "r", "u", "e">>)
                   ELSE Lit(<<"f", "a", "l", "s", "e">>)]
      [] v.t = "num" -> [ok |-> TRUE, s |-> NumToStr(v.h)]
      [] v.t = "str" -> [ok |-> TRUE, s |-> v.s]
      [] v.t = "arr" ->
            \* Array.prototype.join(","): null and undefined elements are "".
            LET part(i) == IF v.a[i].t \in {"absent", "null"}
                           THEN [ok |-> TRUE, s |-> <<>>]
                           ELSE ToStr(v.a[i])
                joined[i \in 0..Len(v.a)] ==
                    IF i = 0 THEN <<>>
                    ELSE Concat(joined[i - 1],
                                Concat(IF i > 1 THEN Lit(<<",">>) ELSE <<>>, part(i).s))
            IN IF \E i \in DOMAIN v.a : ~part(i).ok THEN [ok |-> FALSE]
               ELSE [ok |-> TRUE, s |-> joined[Len(v.a)]]
      [] OTHER -> IF NoPrimitive(v) THEN [ok |-> FALSE]
                  ELSE [ok |-> TRUE, s |-> ObjectObject]

\* Number(v): Number(h), NaN, or Throws for a TypeError.
ToNum(v) ==
    CASE v.t = "absent" -> NaN
      [] v.t = "null" -> Number(0)
      [] v.t = "bool" -> Number(IF v.b THEN 2 ELSE 0)
      [] v.t = "num" -> Number(v.h)
      [] OTHER -> \* a string, or an array or object by way of its string
            LET ofString(str) == IF str.ok THEN StrToNum(str.s) ELSE Throws
            IN ofString(ToStr(v))

(***************************************************************************)
(* The literal strings of the normalization block.                         *)
(***************************************************************************)
DefaultSummary ==
    Lit(<<"R","e","s","u","m","e"," ","a","n","a","l","y","s","i","s"," ","c","o","m","p","l","e","t","e","d",".">>)

FallbackSummary ==
    Lit(<<"R","e","s","u","m","e"," ","s","h","o","w","s"," ","p","r","o","f","e","s","s","i","o","n","a","l"," ","e","x","p","e","r","i","e","n","c","e"," ","a","n","d"," ","r","e","l","e","v","a","n","t"," ","s","k","i","l","l","s","."," ","T","h","e"," ","c","o","n","t","e","n","t"," ","d","e","m","o","n","s","t","r","a","t","e","s"," ","g","o","o","d"," ","s","t","r","u","c","t","u","r","e"," ","w","i","t","h"," ","r","o","o","m"," ","f","o","r"," ","e","n","h","a","n","c","e","m","e","n","t"," ","i","n"," ","s","p","e","c","i","f","i","c"," ","a","r","e","a","s",".">>)

DefaultStrengths ==
    <<Lit(<<"P","r","o","f","e","s","s","i","o","n","a","l"," ","c","o","n","t","e","n","t">>),
       Lit(<<"R","e","l","e","v","a","n","t"," ","e","x","p","e","r","i","e","n","c","e">>),
       Lit(<<"C","l","e","a","r"," ","s","t","r","u","c","t","u","r","e">>)>>

DefaultWeaknesses ==
    <<Lit(<<"C","o","u","l","d"," ","i","m","p","r","o","v","e"," ","q","u","a","n","t","i","f","i","a","b","l","e"," ","a","c","h","i","e","v","e","m","e","n","t","s">>),
       Lit(<<"L","i","m","i","t","e","d"," ","d","e","t","a","i","l"," ","i","n"," ","s","o","m","e"," ","a","r","e","a","s">>)>>

DefaultImprovements ==
    <<Lit(<<"A","d","d"," ","s","p","e","c","i","f","i","c"," ","m","e","t","r","i","c","s">>),
       Lit(<<"I","n","c","l","u","d","e"," ","m","o","r","e"," ","d","e","t","a","i","l","s">>),
       Lit(<<"H","i","g","h","l","i","g","h","t"," ","k","e","y"," ","a","c","c","o","m","p","l","i","s","h","m","e","n","t","s">>)>>

DefaultKeywords ==
    <<Lit(<<"I","n","d","u","s","t","r","y"," ","t","e","r","m","s">>),
       Lit(<<"T","e","c","h","n","i","c","a","l"," ","s","k","i","l","l","s">>),
       Lit(<<"R","e","l","e","v","a","n","t"," ","c","e","r","t","i","f","i","c","a","t","i","o","n","s">>)>>

FallbackStrengths ==
    <<Lit(<<"C","l","e","a","r"," ","p","r","o","f","e","s","s","i","o","n","a","l"," ","p","r","e","s","e","n","t","a","t","i","o","n">>),
       Lit(<<"R","e","l","e","v","a","n","t"," ","e","x","p","e","r","i","e","n","c","e"," ","d","o","c","u","m","e","n","t","e","d">>),
       Lit(<<"T","e","c","h","n","i","c","a","l"," ","s","k","i","l","l","s"," ","h","i","g","h","l","i","g","h","t","e","d">>),
       Lit(<<"O","r","g","a","n","i","z","e","d"," ","s","t","r","u","c","t","u","r","e">>)>>

FallbackWeaknesses ==
    <<Lit(<<"C","o","u","l","d"," ","i","n","c","l","u","d","e"," ","m","o","r","e"," ","q","u","a","n","t","i","f","i","a","b","l","e"," ","a","c","h","i","e","v","e","m","e","n","t","s">>),
       Lit(<<"S","o","m","e"," ","s","e","c","t","i","o","n","s"," ","c","o","u","l","d"," ","u","s","e"," ","m","o","r","e"," ","d","e","t","a","i","l">>),
       Lit(<<"M","i","s","s","i","n","g"," ","s","o","m","e"," ","i","n","d","u","s","t","r","y","-","s","p","e","c","i","f","i","c"," ","k","e","y","w","o","r","d","s">>)>>

FallbackImprovements ==
    <<Lit(<<"A","d","d"," ","s","p","e","c","i","f","i","c"," ","m","e","t","r","i","c","s"," ","a","n","d"," ","n","u","m","b","e","r","s"," ","t","o"," ","a","c","h","i","e","v","e","m","e","n","t","s">>),
       Lit(<<"I","n","c","l","u","d","e"," ","m","o","r","e"," ","d","e","t","a","i","l","e","d"," ","p","r","o","j","e","c","t"," ","d","e","s","c","r","i","p","t","i","o","n","s">>),
       Lit(<<"E","x","p","a","n","d"," ","o","n"," ","t","e","c","h","n","i","c","a","l"," ","s","k","i","l","l"," ","p","r","o","f","i","c","i","e","n","c","y"," ","l","e","v","e","l","s">>),
       Lit(<<"A","d","d"," ","r","e","l","e","v","a","n","t"," ","c","e","r","t","i","f","i","c","a","t","i","o","n","s"," ","o","r"," ","t","r","a","i","n","i","n","g">>)>>

FallbackKeywords ==
    <<Lit(<<"I","n","d","u","s","t","r","y","-","s","p","e","c","i","f","i","c"," ","t","e","r","m","i","n","o","l","o","g","y">>),
       Lit(<<"T","e","c","h","n","i","c","a","l"," ","s","k","i","l","l","s"," ","a","n","d"," ","t","o","o","l","s">>),
       Lit(<<"S","o","f","t"," ","s","k","i","l","l","s">>),
       Lit(<<"R","e","l","e","v","a","n","t"," ","c","e","r","t","i","f","i","c","a","t","i","o","n","s">>),
       Lit(<<"P","r","o","j","e","c","t"," ","m","a","n","a","g","e","m","e","n","t">>)>>


(***************************************************************************)
(* The raw completion.  It is a sequence of tokens: [k |-> "ws"] (a blank), *)
(* [k |-> "nl"] (a newline), [k |-> "fenceJson"] (```json), [k |-> "fence"] *)
(* (```), [k |-> "lb"] and [k |-> "rb"] (the braces), [k |-> "txt"] (a run  *)
(* of other characters that is no JSON text), [k |-> "members", m |-> ...]  *)
(* (the member list of a JSON object, between its braces) and               *)
(* [k |-> "value", v |-> ...] (the JSON text of a value that is no object). *)
(* Braces and backticks inside JSON strings are not represented.            *)
(***************************************************************************)
Tok(k) == [k |-> k]

Members(m) == [k |-> "members", m |-> m]

Value(v) == [k |-> "value", v |-> v]

IsSpace(tok) == tok.k \in {"ws", "nl"}

RECURSIVE TrimToksStart(_)
TrimToksStart(toks) ==
    IF toks # <<>> /\ IsSpace(Head(toks)) THEN TrimToksStart(Tail(toks)) ELSE toks

RECURSIVE TrimToksEnd(_)
TrimToksEnd(toks) ==
    IF toks # <<>> /\ IsSpace(toks[Len(toks)])
    THEN TrimToksEnd(SubSeq(toks, 1, Len(toks) - 1))
    ELSE toks

\* content.trim()
TrimToks(toks) == TrimToksEnd(TrimToksStart(toks))

\* replace(/```json\n?/g, '') for kind "fenceJson", replace(/```\n?/g, '') for
\* kind "fence": every marker goes, with the newline that follows it if any.
RECURSIVE StripFence(_, _)
StripFence(toks, kind) ==
    IF toks = <<>> THEN <<>>
    ELSE IF Head(toks).k = kind
         THEN LET rest == Tail(toks)
              IN StripFence(IF rest # <<>> /\ Head(rest).k = "nl" THEN Tail(rest) ELSE rest,
                            kind)
         ELSE <<Head(toks)>> \o StripFence(Tail(toks), kind)

\* A match that stops at the first "}" after the first "{".
JsonMatchLazy(toks) ==
    LET lbs == {i \in DOMAIN toks : toks[i].k = "lb"}
        first == CHOOSE i \in lbs : \A j \in lbs : i <= j
        rbs == {i \in DOMAIN toks : toks[i].k = "rb" /\ i > first}
        last == CHOOSE i \in rbs : \A j \in rbs : i <= j
    IN IF lbs = {} \/ rbs = {} THEN [ok |-> FALSE]
       ELSE [ok |-> TRUE, s |-> SubSeq(toks, first, last)]

\* aiResponse.match(/\{[\s\S]*\}/): from the first "{" to the last "}" after it.
JsonMatch(toks) ==
    LET lbs == {i \in DOMAIN toks : toks[i].k = "lb"}
        first == CHOOSE i \in lbs : \A j \in lbs : i <= j
        rbs == {i \in DOMAIN toks : toks[i].k = "rb" /\ i > first}
        last == CHOOSE i \in rbs : \A j \in rbs : i >= j
    IN IF lbs = {} \/ rbs = {} THEN [ok |-> FALSE]
       ELSE [ok |-> TRUE, s |-> SubSeq(toks, first, last)]

\* JSON.parse(jsonString): [ok |-> TRUE, v |-> the value], or [ok |-> FALSE] for
\* a SyntaxError. White space between the tokens of a JSON text is insignificant.
JsonParse(toks) ==
    LET sig == SelectSeq(toks, LAMBDA tok : ~IsSpace(tok))
        ks == [i \in DOMAIN sig |-> sig[i].k]
    IN CASE ks = <<"lb", "rb">> -> [ok |-> TRUE, v |-> JObj(<<>>)]
         [] ks = <<"lb", "members", "rb">> -> [ok |-> TRUE, v |-> JObj(sig[2].m)]
         [] ks = <<"value">> -> [ok |-> TRUE, v |-> sig[1].v]
         [] OTHER -> [ok |-> FALSE]

\* Lines 100-107: trim, strip the fences, trim, take the brace-delimited span
\* if there is one, parse.
ParseCompletion(content) ==
    LET aiResponse ==
            TrimToks(StripFence(StripFence(TrimToks(content), "fenceJson"), "fence"))
        jsonMatch == JsonMatch(aiResponse)
        jsonString == IF jsonMatch.ok THEN jsonMatch.s ELSE aiResponse
    IN JsonParse(jsonString)

(***************************************************************************)
(* The coercion of the parsed value, field by field (lines 109-148).       *)
(***************************************************************************)
CategoryKeys == {"formatting", "content", "skills", "experience", "achievements"}

ListKeys == {"strengths", "weaknesses", "improvements", "keywordSuggestions"}

SchemaKeys == {"overallScore", "summary", "categories"} \cup ListKeys

IndexKeys == <<"0", "1", "2", "3", "4", "5", "6", "7", "8", "9", "10", "11", "12">>

\* The own enumerable properties of an object or an array.
OwnProps(v) ==
    IF v.t = "obj" THEN v.m
    ELSE [key \in {IndexKeys[i] : i \in DOMAIN v.a} |->
            v.a[CHOOSE i \in DOMAIN v.a : IndexKeys[i] = key]]

\* Math.min(10, Math.max(0, Number(v) || 7)), in halves: Number(h) or Throws.
Score(v) ==
    LET clamp(n) ==
            IF n = Throws THEN Throws
            ELSE Number(Min(2 * MaxScore,
                            Max(0, IF n = NaN \/ n.h = 0 THEN 2 * DefaultScore ELSE n.h)))
    IN clamp(ToNum(v))

\* String(v || "Resume analysis completed.").substring(0, 500)
Summary(v) ==
    LET cut(str) == IF str.ok THEN [ok |-> TRUE, s |-> Substring0(str.s, MaxSummaryLen)]
                    ELSE [ok |-> FALSE]
    IN cut(ToStr(IF Truthy(v) THEN v ELSE JStr(DefaultSummary)))

\* Array.isArray(v) ? v.slice(0, limit).filter(s => s && typeof s === 'string')
\*                  : default
List(v, limit, default) ==
    IF v.t = "arr"
    THEN LET kept == SelectSeq(SubSeq(v.a, 1, Min(limit, Len(v.a))),
                               LAMBDA e : Truthy(e) /\ e.t = "str")
         IN [i \in DOMAIN kept |-> kept[i].s]
    ELSE default

ListLimit(key) == IF key = "keywordSuggestions" THEN MaxKeywords ELSE MaxListLen

ListDefault(key) ==
    CASE key = "strengths" -> DefaultStrengths
      [] key = "weaknesses" -> DefaultWeaknesses
      [] key = "improvements" -> DefaultImprovements
      [] OTHER -> DefaultKeywords

\* Lines 120-148: the default map when categories is falsy or no object; else
\* the input spread over the default map, every value clamped.
Categories(v) ==
    IF ~Truthy(v) \/ v.t \notin {"obj", "arr"}
    THEN [ok |-> TRUE, c |-> [key \in CategoryKeys |-> 2 * DefaultScore]]
    ELSE LET merge(own) == [key \in CategoryKeys \cup DOMAIN own |->
                               IF key \in DOMAIN own THEN own[key] ELSE JInt(DefaultScore)]
             clampAll(merged) == [key \in DOMAIN merged |-> Score(merged[key])]
             map(scores) == IF \E key \in DOMAIN scores : scores[key] = Throws
                            THEN [ok |-> FALSE]
                            ELSE [ok |-> TRUE, c |-> [key \in DOMAIN scores |-> scores[key].h]]
         IN map(clampAll(merge(OwnProps(v))))

\* analysisData after lines 109-148, or Throws when a line throws a TypeError:
\* null has no properties, a property of a primitive cannot be assigned in
\* strict mode, and a conversion to a primitive can fail.  `rest` holds the
\* other own properties of the parsed value, which the block leaves in place.
Coerce(v) ==
    IF v.t \notin {"obj", "arr"} THEN Throws
    ELSE LET lists(m) == [key \in ListKeys |->
                             List(Get(m, key), ListLimit(key), ListDefault(key))]
             data(m, score, summary, list, cats) ==
                IF score = Throws \/ ~summary.ok \/ ~cats.ok THEN Throws
                ELSE [overallScore |-> score.h,
                      summary |-> summary.s,
                      strengths |-> list["strengths"],
                      weaknesses |-> list["weaknesses"],
                      improvements |-> list["improvements"],
                      keywordSuggestions |-> list["keywordSuggestions"],
                      categories |-> cats.c,
                      array |-> v.t = "arr",
                      rest |-> [key \in DOMAIN m \ SchemaKeys |-> m[key]]]
             fields(m) == data(m, Score(Get(m, "overallScore")), Summary(Get(m, "summary")),
                               lists(m), Categories(Get(m, "categories")))
         IN fields(OwnProps(v))

\* Lines 155-169: the hardcoded payload of the catch block.
Fallback ==
    [overallScore |-> 2 * DefaultScore,
     summary |-> FallbackSummary,
     strengths |-> FallbackStrengths,
     weaknesses |-> FallbackWeaknesses,
     improvements |-> FallbackImprovements,
     keywordSuggestions |-> FallbackKeywords,
     categories |-> [key \in CategoryKeys |->
                        IF key = "achievements" THEN 2 * FallbackAchievements
                        ELSE 2 * DefaultScore],
     array |-> FALSE,
     rest |-> <<>>]

\* A block whose catch fills in the defaults of the fields instead.
NormalizeWithFieldDefaults(content) ==
    LET try(parsed) == IF parsed.ok THEN Coerce(parsed.v) ELSE Throws
        catch(data) == IF data = Throws THEN Coerce(JObj(<<>>)) ELSE data
    IN catch(try(ParseCompletion(content)))

\* Lines 97-170: the normalization block, try and catch.
Normalize(content) ==
    LET try(parsed) == IF parsed.ok THEN Coerce(parsed.v) ELSE Throws
        catch(data) == IF data = Throws THEN Fallback ELSE data
    IN catch(try(ParseCompletion(content)))

(***************************************************************************)
(* The older variant of the analyze route (src/unnamed/part_001, lines     *)
(* 129-363): its normalization block, lines 226-286.                       *)
(***************************************************************************)
\* An older block that parses the cleaned completion as a whole.
OlderParseWhole(content) ==
    LET aiResponse == TrimToks(content)
        fenced == \E i \in DOMAIN aiResponse : aiResponse[i].k \in {"fenceJson", "fence"}
    IN JsonParse(IF fenced
                 THEN TrimToks(StripFence(StripFence(aiResponse, "fenceJson"), "fence"))
                 ELSE aiResponse)

\* Lines 229-240: trim; strip the fences if there is one and trim again; take
\* the brace-delimited span if there is one; parse.
OlderParseCompletion(content) ==
    LET parse(cleanedResponse, jsonMatch) ==
            JsonParse(IF jsonMatch.ok THEN jsonMatch.s ELSE cleanedResponse)
        match(cleanedResponse) == parse(cleanedResponse, JsonMatch(cleanedResponse))
        clean(aiResponse) ==
            match(IF \E i \in DOMAIN aiResponse : aiResponse[i].k \in {"fenceJson", "fence"}
                  THEN TrimToks(StripFence(StripFence(aiResponse, "fenceJson"), "fence"))
                  ELSE aiResponse)
    IN clean(TrimToks(content))

\* analysisData after lines 242-264, or Throws for a TypeError.  The lists
\* hold the entries as they came, whatever their type (no filter); the
\* categories are the own keys of the input (no default map underneath), a
\* value being NaN when Math.max is given what is no number.
OlderCoerce(v) ==
    IF v.t \notin {"obj", "arr"} THEN Throws
    ELSE LET \* analysisData.summary?.substring(0, 500) || "Resume analysis completed."
             cut(str) == [ok |-> TRUE, s |-> IF str = <<>> THEN DefaultSummary ELSE str]
             summary(x) == IF x.t \in {"absent", "null"} THEN [ok |-> TRUE, s |-> DefaultSummary]
                           ELSE IF x.t # "str" THEN [ok |-> FALSE]
                           ELSE cut(Substring0(x.s, MaxSummaryLen))
             \* Array.isArray(x) ? x.slice(0, limit) : []
             list(x, limit) == IF x.t = "arr" THEN SubSeq(x.a, 1, Min(limit, Len(x.a)))
                               ELSE <<>>
             \* Math.min(10, Math.max(0, x || 7))
             clamp(n) == IF n = Throws \/ n = NaN THEN n
                         ELSE Number(Min(2 * MaxScore, Max(0, n.h)))
             value(x) == IF Truthy(x) THEN clamp(ToNum(x)) ELSE Number(2 * DefaultScore)
             each(own) == [key \in DOMAIN own |-> value(own[key])]
             map(scores) == IF \E key \in DOMAIN scores : scores[key] = Throws
                            THEN [ok |-> FALSE]
                            ELSE [ok |-> TRUE,
                                  c |-> [key \in DOMAIN scores |->
                                            IF scores[key] = NaN THEN NaN
                                            ELSE scores[key].h]]
             categories(x) ==
                IF ~Truthy(x) \/ x.t \notin {"obj", "arr"}
                THEN [ok |-> TRUE, c |-> [key \in CategoryKeys |-> 2 * DefaultScore]]
                ELSE map(each(OwnProps(x)))
             data(m, score, sum, cats) ==
                IF score = Throws \/ ~sum.ok \/ ~cats.ok THEN Throws
                ELSE [overallScore |-> score.h,
                      summary |-> sum.s,
                      strengths |-> list(Get(m, "strengths"), MaxListLen),
                      weaknesses |-> list(Get(m, "weaknesses"), MaxListLen),
                      improvements |-> list(Get(m, "improvements"), MaxListLen),
                      keywordSuggestions |-> list(Get(m, "keywordSuggestions"), MaxKeywords),
                      categories |-> cats.c,
                      array |-> v.t = "arr",
                      rest |-> [key \in DOMAIN m \ SchemaKeys |-> m[key]]]
             fields(m) == data(m, Score(Get(m, "overallScore")), summary(Get(m, "summary")),
                               categories(Get(m, "categories")))
         IN fields(OwnProps(v))

\* Lines 271-285: the hardcoded payload of the older catch block.
OlderFallback ==
    LET strs(l) == [i \in DOMAIN l |-> JStr(l[i])]
    IN [overallScore |-> 2 * DefaultScore,
        summary |-> Lit(<<"R","e","s","u","m","e"," ","s","h","o","w","s"," ","p","r","o","f","e","s","s","i","o","n","a","l"," ","e","x","p","e","r","i","e","n","c","e"," ","b","u","t"," ","d","e","t","a","i","l","e","d"," ","A","I"," ","a","n","a","l","y","s","i","s"," ","f","o","r","m","a","t"," ","u","n","a","v","a","i","l","a","b","l","e",".">>),
        strengths |-> strs(<<Lit(<<"P","r","o","f","e","s","s","i","o","n","a","l"," ","c","o","n","t","e","n","t">>),
                          Lit(<<"R","e","l","e","v","a","n","t"," ","e","x","p","e","r","i","e","n","c","e">>),
                          Lit(<<"T","e","c","h","n","i","c","a","l"," ","s","k","i","l","l","s"," ","l","i","s","t","e","d">>)>>),
        weaknesses |-> strs(<<Lit(<<"C","o","u","l","d"," ","i","m","p","r","o","v","e"," ","q","u","a","n","t","i","f","i","a","b","l","e"," ","a","c","h","i","e","v","e","m","e","n","t","s">>),
                          Lit(<<"L","i","m","i","t","e","d"," ","p","r","o","j","e","c","t"," ","d","e","t","a","i","l","s">>),
                          Lit(<<"M","i","s","s","i","n","g"," ","k","e","y","w","o","r","d","s">>)>>),
        improvements |-> strs(<<Lit(<<"A","d","d"," ","m","e","t","r","i","c","s"," ","t","o"," ","a","c","h","i","e","v","e","m","e","n","t","s">>),
                          Lit(<<"I","n","c","l","u","d","e"," ","p","r","o","j","e","c","t"," ","e","x","a","m","p","l","e","s">>),
                          Lit(<<"E","x","p","a","n","d"," ","s","k","i","l","l"," ","d","e","s","c","r","i","p","t","i","o","n","s">>)>>),
        keywordSuggestions |-> strs(<<Lit(<<"I","n","d","u","s","t","r","y"," ","t","e","r","m","s">>),
                          Lit(<<"T","e","c","h","n","i","c","a","l"," ","s","k","i","l","l","s">>),
                          Lit(<<"S","o","f","t"," ","s","k","i","l","l","s">>)>>),
        categories |-> [key \in CategoryKeys |->
                           IF key = "achievements" THEN 2 * FallbackAchievements
                           ELSE 2 * DefaultScore],
        array |-> FALSE,
        rest |-> <<>>]

\* Lines 226-286: the older normalization block, try and catch.
NormalizeOlder(content) ==
    LET try(parsed) == IF parsed.ok THEN OlderCoerce(parsed.v) ELSE Throws
        catch(data) == IF data = Throws THEN OlderFallback ELSE data
    IN catch(try(OlderParseCompletion(content)))

\* JSON.stringify(analysisData), as a completion: an array serializes as its
\* elements alone, an object as all its own properties.
Serialize(data) ==
    IF data.array
    THEN <<Value(JArr([i \in 1..Cardinality(DOMAIN data.rest) |-> data.rest[IndexKeys[i]]]))>>
    ELSE LET strs(l) == JArr([i \in DOMAIN l |-> JStr(l[i])])
             m == [key \in SchemaKeys \cup DOMAIN data.rest |->
                     CASE key = "overallScore" -> JNum(data.overallScore)
                       [] key = "summary" -> JStr(data.summary)
                       [] key = "categories" ->
                            JObj([c \in DOMAIN data.categories |-> JNum(data.categories[c])])
                       [] key \in ListKeys -> strs(data[key])
                       [] OTHER -> data.rest[key]]
         IN <<Tok("lb"), Members(m), Tok("rb")>>

(***************************************************************************)
(* Inputs of the normalizer: the raw completions the checks draw from.     *)
(***************************************************************************)
\* How far beyond the program's limits the inputs reach: scores from -Over to
\* MaxScore + Over, strings and lists up to Over longer than their limits.
Over == 5

Rep(c, n) == IF n = 0 THEN <<>> ELSE <<Run(c, n)>>

\* A JSON object that cannot be converted to a primitive.
Poison == JObj("toString" :> JInt(1))

\* The i-th entry of a generated list: "k" followed by i.
Entry(i) == Concat(Lit(<<"k">>), NumToStr(2 * i))

\* n non-empty strings.
GoodList(n) == JArr([i \in 1..n |-> JStr(Entry(i))])

\* n entries, of which every second one is no non-empty string.
MixedList(n) ==
    JArr([i \in 1..n |->
            CASE i % 6 = 2 -> JStr(<<>>)
              [] i % 6 = 4 -> JInt(i)
              [] i % 6 = 0 -> JNull
              [] OTHER -> JStr(Entry(i))])

ScoreInputs ==
    {JNum(h) : h \in (-2 * Over)..(2 * (MaxScore + Over))}
    \cup {JAbsent, JNull, JBool(TRUE), JStr(<<>>), JStr(Lit(<<"8">>)),
          JStr(Lit(<<"7", ".", "5">>)), JStr(Lit(<<"a", "b">>)),
          JArr(<<>>), JArr(<<JInt(5)>>), JObj(<<>>), Poison}

SummaryInputs ==
    {JStr(Rep("a", n)) : n \in {0, 1, MaxSummaryLen, MaxSummaryLen + Over}}
    \cup {JAbsent, JNull, JInt(5), JNum(15), JBool(TRUE), JArr(<<>>),
          JArr(<<JInt(1), JNull, JStr(Lit(<<"x">>))>>), JObj(<<>>), Poison}

ListInputs(key) ==
    {GoodList(n) : n \in {0, 2, ListLimit(key), ListLimit(key) + Over}}
    \cup {MixedList(ListLimit(key) + Over), JAbsent, JNull, JStr(Lit(<<"a", "b">>)),
          JObj(<<>>), Poison}

CategoriesInputs ==
    {JObj("skills" :> JNum(h)) : h \in (-2 * Over)..(2 * (MaxScore + Over))}
    \cup {JObj([key \in CategoryKeys |-> JInt(n)]) : n \in {0, 3, MaxScore + Over}}
    \cup {JAbsent, JNull, JBool(TRUE), JInt(5), JStr(Lit(<<"a", "b">>)), JObj(<<>>),
          JObj("skills" :> JStr(Lit(<<"8">>)) @@ "content" :> JNull),
          JObj("layout" :> JInt(MaxScore + Over)), JArr(<<JInt(3)>>),
          JObj("skills" :> Poison)}

FieldInputs(key) ==
    CASE key = "overallScore" -> ScoreInputs
      [] key = "summary" -> SummaryInputs
      [] key = "categories" -> CategoriesInputs
      [] OTHER -> ListInputs(key)

\* For the second field of a two-field object: a well-formed, a wrongly typed
\* and an unconvertible value.
CoreInputs(key) ==
    CASE key = "overallScore" -> {JInt(3), JStr(Lit(<<"a", "b">>)), Poison}
      [] key = "summary" -> {JStr(Lit(<<"o", "k">>)), JInt(5), Poison}
      [] key = "categories" -> {JObj("skills" :> JInt(9)), JInt(5), JObj("skills" :> Poison)}
      [] OTHER -> {GoodList(2), JInt(5), Poison}

\* The members given, undefined ones left out.
MakeObj(m) == [key \in {k \in DOMAIN m : m[k] # JAbsent} |-> m[key]]

\* A completion that follows the prompt's schema, with one more key.
WellFormed ==
    [key \in SchemaKeys \cup {"note"} |->
        CASE key = "overallScore" -> JInt(8)
          [] key = "summary" -> JStr(Lit(<<"o", "k">>))
          [] key = "categories" -> JObj([c \in CategoryKeys |-> JInt(6)])
          [] key = "note" -> JStr(Lit(<<"x">>))
          [] OTHER -> GoodList(3)]

\* The member lists of the JSON objects: one field, or two fields, or all of
\* them with one field varied.
ObjectInputs ==
    UNION {{MakeObj(k1 :> v1) : v1 \in FieldInputs(k1)} : k1 \in SchemaKeys}
    \cup UNION {{MakeObj([WellFormed EXCEPT ![k1] = v1]) : v1 \in FieldInputs(k1)} :
                k1 \in SchemaKeys}
    \cup UNION {UNION {{MakeObj(k1 :> v1 @@ k2 :> v2) :
                            v1 \in FieldInputs(k1), v2 \in CoreInputs(k2)} :
                       k2 \in SchemaKeys \ {k1}} : k1 \in SchemaKeys}
    \cup {WellFormed}

Braced(m) == <<Tok("lb"), Members(m), Tok("rb")>>

\* The completions: every object bare; some inside fences or prose; texts that
\* are no JSON; JSON texts that are no object.
RawCompletions ==
    {Braced(m) : m \in ObjectInputs}
    \cup UNION {{<<Tok("fenceJson"), Tok("nl")>> \o Braced(m) \o <<Tok("nl"), Tok("fence")>>,
                 <<Tok("fence"), Tok("nl")>> \o Braced(m) \o <<Tok("fence"), Tok("nl")>>,
                 <<Tok("txt"), Tok("ws")>> \o Braced(m) \o <<Tok("ws"), Tok("txt")>>,
                 <<Tok("ws"), Tok("lb"), Tok("nl"), Members(m), Tok("ws"), Tok("rb"), Tok("nl")>>,
                 Braced(m) \o <<Tok("ws")>> \o Braced(m),
                 <<Tok("lb"), Tok("txt"), Tok("rb"), Tok("ws")>> \o Braced(m),
                 <<Tok("lb"), Members(m)>>,
                 <<Tok("rb")>> \o Braced(m),
                 <<Members(m)>>} :
                m \in {WellFormed, MakeObj("overallScore" :> JNum(15))}}
    \cup {<<>>, <<Tok("ws"), Tok("nl")>>, <<Tok("txt")>>, <<Tok("fence"), Tok("fence")>>,
          <<Tok("lb"), Tok("rb")>>, <<Tok("rb"), Tok("lb")>>, <<Tok("lb")>>}
    \cup {<<Value(v)>> : v \in {JNull, JBool(TRUE), JBool(FALSE), JInt(5), JStr(<<>>),
                                JStr(Lit(<<"o", "k">>)), JArr(<<>>),
                                JArr(<<JInt(1), JStr(Lit(<<"x">>))>>)}}

(***************************************************************************)
(* The analysis routes: POST /analyze and GET /:uniqueId.                  *)
(***************************************************************************)
MinResumeLen == 100
maxLength == 50000
StoredPrefixLen == 1000
IdBytes == 8
IdLen == 16

\* process.env: the inference token is set or not, NODE_ENV, FRONTEND_URL (a
\* string, or undefined).
Environments ==
    {[token |-> TRUE, nodeEnv |-> "development", frontendUrl |-> JAbsent],
     [token |-> TRUE, nodeEnv |-> "production",
      frontendUrl |-> JStr(Lit(<<"h", ":", "/", "/", "r", ".", "i", "o">>))],
     [token |-> TRUE, nodeEnv |-> "production",
      frontendUrl |-> JStr(Lit(<<"h", ":", "/", "/", "r", ".", "i", "o", "/", "/">>))],
     [token |-> TRUE, nodeEnv |-> "development", frontendUrl |-> JStr(<<>>)],
     [token |-> FALSE, nodeEnv |-> "production", frontendUrl |-> JStr(Lit(<<"/">>))]}

\* 'http://localhost:3000'
DefaultFrontendUrl ==
    Lit(<<"h", "t", "t", "p", ":", "/", "/", "l", "o", "c", "a", "l", "h", "o", "s", "t",
          ":", "3", "0", "0", "0">>)

Metadata ==
    JObj("filename" :> JStr(Lit(<<"c", "v", ".", "p", "d", "f">>))
         @@ "fileSize" :> JInt(2048)
         @@ "processingMethod" :> JStr(Lit(<<"P", "D", "F">>)))

\* The request bodies: no text, a text that is no string, texts around the
\* minimum length (bare and padded with white space), texts around the
\* maximum analysed length, texts that begin with a long run of white space.
Bodies ==
    {[resumeText |-> v, metadata |-> JAbsent] :
        v \in {JAbsent, JNull, JStr(<<>>), JInt(12345), JStr(Rep(" ", MinResumeLen + Over))}}
    \cup {[resumeText |-> JStr(Rep("a", n)), metadata |-> Metadata] :
            n \in {MinResumeLen - 1, MinResumeLen, maxLength, maxLength + Over}}
    \cup {[resumeText |-> JStr(Rep(" ", Over) \o Rep("a", n) \o Rep("\n", Over)),
           metadata |-> JObj(<<>>)] : n \in {MinResumeLen - 1, MinResumeLen}}
    \cup {[resumeText |-> JStr(Rep("a", maxLength - 1) \o Rep("b", Over)),
           metadata |-> Metadata]}
    \cup {[resumeText |-> JStr(Rep(" ", n) \o Rep("a", MinResumeLen)), metadata |-> Metadata] :
            n \in {maxLength - MinResumeLen, maxLength - Over, maxLength}}

\* The completions the inference service returns to a request.
Completions ==
    {<<>>, <<Tok("txt")>>, <<Tok("lb"), Members(WellFormed)>>,
     Braced(WellFormed) \o <<Tok("ws")>> \o Braced(WellFormed),
     Braced(WellFormed),
     <<Tok("fenceJson"), Tok("nl")>> \o Braced(MakeObj("overallScore" :> JInt(MaxScore + Over)))
        \o <<Tok("nl"), Tok("fence")>>}

\* What crypto.randomBytes(8) may return (two of the 2^64 values).
RandomBytes ==
    {[i \in 1..IdBytes |-> 0],
     [i \in 1..IdBytes |-> IF i % 4 = 1 THEN 222 ELSE IF i % 4 = 2 THEN 173
                           ELSE IF i % 4 = 3 THEN 190 ELSE 239]}

HexDigits == <<"0", "1", "2", "3", "4", "5", "6", "7", "8", "9", "a", "b", "c", "d", "e", "f">>

\* Buffer.toString('hex'): two lowercase hexadecimal digits per byte.
ToHex(bytes) ==
    Lit([i \in 1..(2 * Len(bytes)) |->
            IF i % 2 = 1 THEN HexDigits[(bytes[(i + 1) \div 2] \div 16) + 1]
            ELSE HexDigits[(bytes[i \div 2] % 16) + 1]])

\* Sixteen characters, whatever they are.
IsValidIdByLength(id) == StrLen(id) = IdLen

\* /^[a-f0-9]{16}$/.test(uniqueId)
IsValidId(id) ==
    /\ StrLen(id) = IdLen
    /\ \A i \in DOMAIN id : \E d \in DOMAIN HexDigits : HexDigits[d] = id[i].c

\* The base URL as configured.
KeepTrailingSlashes(s) == s

\* s.replace(/\/+$/, '')
StripTrailingSlashes(s) ==
    IF s # <<>> /\ s[Len(s)].c = "/" THEN SubSeq(s, 1, Len(s) - 1) ELSE s

\* `${frontendUrl}/analysis/${uniqueId}` with
\* frontendUrl = (process.env.FRONTEND_URL || 'http://localhost:3000').replace(/\/+$/, '')
ShareableLink(e, uniqueId) ==
    LET frontendUrl ==
            StripTrailingSlashes(IF Truthy(e.frontendUrl) THEN e.frontendUrl.s
                                 ELSE DefaultFrontendUrl)
    IN Concat(Concat(frontendUrl, Lit(<<"/", "a", "n", "a", "l", "y", "s", "i", "s", "/">>)),
              uniqueId)

\* The gate on the length as submitted.
LongEnoughUntrimmed(s) == StrLen(s) >= MinResumeLen

\* The input gate passes: resumeText.trim().length >= 100.
LongEnough(s) == StrLen(Trim(s)) >= MinResumeLen

\* The text as submitted.
TextToAnalyzeWhole(s) == s

\* resumeText.length > maxLength ? resumeText.substring(0, maxLength) : resumeText
TextToAnalyze(s) == IF StrLen(s) > maxLength THEN Substring0(s, maxLength) ELSE s

\* The resumeText of the stored record.
StoredText(e, text) ==
    IF e.nodeEnv = "production"
    THEN Concat(Substring0(text, StoredPrefixLen), Lit(<<".", ".", ".">>))
    ELSE text

\* The analysisData of the stored record: the schema is strict, so properties
\* it does not declare are not stored.
StoredAnalysis(data) ==
    [data EXCEPT !.rest = <<>>,
                 !.categories = [c \in CategoryKeys |-> data.categories[c]]]

VARIABLES
    env,        \* process.env
    pc,         \* the request: "idle" | "awaitInference" | "awaitCreate" | "done"
    body,       \* req.body
    calls,      \* the collaborator calls made so far, in order
    prompt,     \* the resume text embedded in the prompt sent
    completion, \* the content of the inference response
    analysis,   \* analysisData
    uid,        \* uniqueId
    resp,       \* the response sent
    store,      \* the Analysis collection
    lookup,     \* the last GET /:uniqueId request and its response
    self,       \* which analyze request is running: "request" | "other"
    parked      \* the locals of the analyze request that is not running

concVars == <<self, parked>>

pipeVars ==
    <<env, pc, body, calls, prompt, completion, analysis, uid, resp, store, lookup, concVars>>

(***************************************************************************)
(* The upload route, POST /resume (src/unnamed/part_001, lines 364-622):   *)
(* its state.                                                              *)
(***************************************************************************)
MinTextLen == 50

VARIABLES
    upc,      \* the upload request: "idle" | "ocrCreating" | "ocrRecognizing" | "parsing" | "done"
    ufile,    \* req.file
    tmp,      \* the temporary file: "none" | "present" | "absent"
    worker,   \* the OCR worker: "none" | "acquired" | "terminated"
    timer,    \* the parse timeout: "unset" | "armed" | "cleared" | "fired"
    settled,  \* the promise of parsePDF: "none" | "pending" | "settled"
    events,   \* the timer and parser events that occurred, in order
    reading,  \* the text as extracted and not yet trimmed (text, extractedText)
    uresp,    \* the response sent
    usent     \* the number of responses sent

upVars == <<upc, ufile, tmp, worker, timer, settled, events, reading, uresp, usent>>

NoFile == [mimetype |-> "none"]

\* No text extracted yet.
NoReading == [k |-> "none"]

InitUpload ==
    /\ upc = "idle"
    /\ ufile = NoFile
    /\ tmp = "none"
    /\ worker = "none"
    /\ timer = "unset"
    /\ settled = "none"
    /\ events = <<>>
    /\ reading = NoReading
    /\ uresp = [status |-> 0]
    /\ usent = 0

(***************************************************************************)
(* The Home page (src/frontend/src/pages/Home.jsx): its state.  A file is  *)
(* a record of the name, size and type the browser reports; a text is <<>> *)
(* (the empty string) or <<"text of", name>>, what the server extracts     *)
(* from the file of that name.  The state `analysis` of the page is named  *)
(* report here.                                                            *)
(***************************************************************************)
\* 10 * 1024 * 1024
MaxFileSize == 10485760

\* The requests the model lets be in flight at once, of either kind.
MaxInFlight == 2

VARIABLES
    file,           \* useState(null): the selected file
    uploading,      \* useState(false)
    extractedText,  \* useState('')
    analyzing,      \* useState(false)
    report,         \* useState(null): analysis
    error,          \* useState('')
    uploads,        \* the upload requests in flight: the file each one sent
    analyses        \* the analyze requests in flight: the body each one sent

homeVars == <<file, uploading, extractedText, analyzing, report, error, uploads, analyses>>

\* null
NoSelection == [name |-> "null"]

\* Lines 13-18.
InitHome ==
    /\ file = NoSelection
    /\ uploading = FALSE
    /\ extractedText = <<>>
    /\ analyzing = FALSE
    /\ report = NoSelection
    /\ error = ""
    /\ uploads = <<>>
    /\ analyses = <<>>

vars == <<normVars, pipeVars, upVars, homeVars>>

\* No payload yet.
NoResult == [k |-> "none"]

NoBody == [resumeText |-> JAbsent, metadata |-> JAbsent]

\* No inference response yet.
NoCompletion == <<Tok("none")>>

NoResponse == [status |-> 0]

NoLookup == [id |-> <<>>, status |-> 0, queried |-> FALSE]

InvalidInput ==
    [status |-> 400, success |-> FALSE,
     message |-> "Resume text is required and must be substantial enough for analysis."]

NotConfigured ==
    [status |-> 500, success |-> FALSE,
     message |-> "AI service is not configured. Please contact support."]

\* The outer catch: error.message goes out in development only.
AnalysisFailed(e, cause) ==
    [status |-> 500, success |-> FALSE,
     message |-> "Failed to analyze resume. Please try again.",
     error |-> IF e.nodeEnv = "development" THEN cause ELSE "undefined"]

\* A record an earlier request stored.
Earlier ==
    [uniqueId |-> Lit(<<"d", "e", "a", "d", "b", "e", "e", "f",
                        "d", "e", "a", "d", "b", "e", "e", "f">>),
     resumeText |-> Rep("c", MinResumeLen),
     analysisData |-> Fallback,
     metadata |-> JObj(<<>>),
     createdAt |-> 0,
     by |-> "earlier"]

\* The locals of a request that has not started.
Fresh ==
    [pc |-> "idle", body |-> NoBody, calls |-> <<>>, prompt |-> <<>>,
     completion |-> NoCompletion, analysis |-> NoResult, uid |-> <<>>, resp |-> NoResponse]

InitPipe ==
    /\ self = "request"
    /\ parked = Fresh
    /\ pc = "idle"
    /\ body = NoBody
    /\ calls = <<>>
    /\ prompt = <<>>
    /\ completion = NoCompletion
    /\ analysis = NoResult
    /\ uid = <<>>
    /\ resp = NoResponse
    /\ lookup = NoLookup

Init ==
    /\ env \in Environments
    /\ store \in {{}, {Earlier}}
    /\ InitPipe
    /\ InitUpload
    /\ InitHome
    /\ raw = <<>>
    /\ result = NoResult
    /\ again = NoResult
    /\ older = NoResult
    /\ phase = "idle"

Respond(response) ==
    /\ resp' = response
    /\ pc' = "done"

\* POST /analyze, lines 8-93: the gate, the truncation, the token check and the
\* call of the inference service.
Receive(b) ==
    /\ pc = "idle"
    /\ body' = b
    /\ UNCHANGED <<env, completion, analysis, uid, store, lookup, concVars, normVars, homeVars, upVars>>
    /\ IF ~Truthy(b.resumeText)
       THEN Respond(InvalidInput) /\ UNCHANGED <<calls, prompt>>
       ELSE IF b.resumeText.t # "str"
       THEN \* resumeText.trim is not a function: the outer catch answers
            /\ Respond(AnalysisFailed(env, "resumeText.trim is not a function"))
            /\ UNCHANGED <<calls, prompt>>
       ELSE IF ~LongEnough(b.resumeText.s)
       THEN Respond(InvalidInput) /\ UNCHANGED <<calls, prompt>>
       ELSE IF ~env.token
       THEN Respond(NotConfigured) /\ UNCHANGED <<calls, prompt>>
       ELSE /\ prompt' = TextToAnalyze(b.resumeText.s)
            /\ calls' = Append(calls, "chatCompletion")
            /\ pc' = "awaitInference"
            /\ UNCHANGED resp

\* Lines 95-179: the inference service answered; the completion is normalized,
\* the identifier drawn and Analysis.create called.
InferenceResolves(content, bytes) ==
    /\ pc = "awaitInference"
    /\ completion' = content
    /\ analysis' = Normalize(content)
    /\ uid' = ToHex(bytes)
    /\ calls' = Append(calls, "create")
    /\ pc' = "awaitCreate"
    /\ UNCHANGED <<env, body, prompt, resp, store, lookup, concVars, normVars, homeVars, upVars>>

\* A handler that answers a failed inference call with the fallback payload
\* and goes on to store it.
InferenceRejectsToFallback ==
    /\ pc = "awaitInference"
    /\ analysis' = Fallback
    /\ uid' = Rep("0", IdLen)
    /\ calls' = Append(calls, "create")
    /\ pc' = "awaitCreate"
    /\ UNCHANGED <<env, body, prompt, completion, resp, store, lookup, concVars, normVars, homeVars, upVars>>

\* The inference call failed (network, authentication, quota): lines 193-203.
InferenceRejects ==
    /\ pc = "awaitInference"
    /\ Respond(AnalysisFailed(env, "inference error"))
    /\ UNCHANGED <<env, body, calls, prompt, completion, analysis, uid, store, lookup, concVars, normVars, homeVars, upVars>>

\* A collection without the unique index.
CreateResolvesUnindexed ==
    /\ pc = "awaitCreate"
    /\ store' = store \cup {[uniqueId |-> uid,
                             resumeText |-> StoredText(env, prompt),
                             analysisData |-> StoredAnalysis(analysis),
                             metadata |-> IF Truthy(body.metadata) THEN body.metadata
                                          ELSE JObj(<<>>),
                             createdAt |-> 1,
                             by |-> self]}
    /\ Respond([status |-> 200, success |-> TRUE,
                message |-> "Resume analysis completed",
                data |-> analysis,
                shareableLink |-> ShareableLink(env, uid),
                uniqueId |-> uid])
    /\ UNCHANGED <<env, body, calls, prompt, completion, analysis, uid, lookup, concVars,
                   normVars, homeVars, upVars>>

\* Lines 174-191: the record is stored and the success response sent. The
\* collection has a unique index on uniqueId.
CreateResolves ==
    /\ pc = "awaitCreate"
    /\ \A rec \in store : rec.uniqueId # uid
    /\ store' = store \cup {[uniqueId |-> uid,
                             resumeText |-> StoredText(env, prompt),
                             analysisData |-> StoredAnalysis(analysis),
                             metadata |-> IF Truthy(body.metadata) THEN body.metadata
                                          ELSE JObj(<<>>),
                             createdAt |-> 1,
                             by |-> self]}
    /\ Respond([status |-> 200, success |-> TRUE,
                message |-> "Resume analysis completed",
                data |-> analysis,
                shareableLink |-> ShareableLink(env, uid),
                uniqueId |-> uid])
    /\ UNCHANGED <<env, body, calls, prompt, completion, analysis, uid, lookup, concVars, normVars, homeVars, upVars>>

\* Analysis.create failed (a duplicate key, the database down): lines 193-203.
CreateRejects ==
    /\ pc = "awaitCreate"
    /\ Respond(AnalysisFailed(env, "database error"))
    /\ UNCHANGED <<env, body, calls, prompt, completion, analysis, uid, store, lookup, concVars, normVars, homeVars, upVars>>

\* The identifiers looked up: the two that can be issued, one well-formed that
\* is not, and malformed ones (too short, too long, upper case, letters that
\* are no hexadecimal digits, a trailing newline).
LookupIds ==
    {ToHex(b) : b \in RandomBytes}
    \cup {Rep("a", IdLen), Rep("a", IdLen + 1), Rep("A", IdLen),
          Rep("a", IdLen) \o Rep("\n", 1),
          Lit(<<"x", "y", "z">>), Lit(<<"d", "e", "a", "d", "b", "e", "e", "f">>)}

\* A response that hands out the record as it is stored.
LookupResponseWholeRecord(st, id, dbUp) ==
    IF ~IsValidId(id)
    THEN [id |-> id, status |-> 400, queried |-> FALSE,
          message |-> "Invalid analysis ID format"]
    ELSE IF ~dbUp
    THEN [id |-> id, status |-> 500, queried |-> TRUE,
          message |-> "Failed to fetch analyis"]
    ELSE IF \A rec \in st : rec.uniqueId # id
    THEN [id |-> id, status |-> 404, queried |-> TRUE,
          message |-> "Analysis not found"]
    ELSE [id |-> id, status |-> 200, queried |-> TRUE,
          data |-> CHOOSE rec \in st : rec.uniqueId = id]

\* Lines 208-245: the response of GET /:uniqueId for the collection st; the
\* timestamps option of the schema gives every record its createdAt.
LookupResponse(st, id, dbUp) ==
    IF ~IsValidId(id)
    THEN [id |-> id, status |-> 400, queried |-> FALSE,
          message |-> "Invalid analysis ID format"]
    ELSE IF ~dbUp
    THEN [id |-> id, status |-> 500, queried |-> TRUE,
          message |-> "Failed to fetch analyis"]
    ELSE IF \A rec \in st : rec.uniqueId # id
    THEN [id |-> id, status |-> 404, queried |-> TRUE,
          message |-> "Analysis not found"]
    ELSE LET found(rec) ==
                 [id |-> id, status |-> 200, queried |-> TRUE,
                  data |-> [analysisData |-> rec.analysisData, metadata |-> rec.metadata,
                            createdAt |-> rec.createdAt]]
         IN found(CHOOSE rec \in st : rec.uniqueId = id)

\* A lookup that removes the record it finds.
LookupAndRemove(id, dbUp) ==
    /\ lookup' = [id |-> id, status |-> IF IsValidId(id) THEN 200 ELSE 400,
                  queried |-> IsValidId(id), message |-> "Invalid analysis ID format"]
    /\ store' = {rec \in store : rec.uniqueId # id}
    /\ UNCHANGED <<env, pc, body, calls, prompt, completion, analysis, uid, resp, concVars,
                   normVars, homeVars, upVars>>

\* GET /:uniqueId, lines 206-246.
Lookup(id, dbUp) ==
    /\ lookup' = LookupResponse(store, id, dbUp)
    /\ UNCHANGED <<env, pc, body, calls, prompt, completion, analysis, uid, resp, store,
                   concVars, normVars, homeVars, upVars>>

Next ==
    \/ \E b \in Bodies : Receive(b)
    \/ \E content \in Completions, bytes \in RandomBytes : InferenceResolves(content, bytes)
    \/ InferenceRejects
    \/ CreateResolves
    \/ CreateRejects
    \/ \E id \in LookupIds, dbUp \in BOOLEAN : Lookup(id, dbUp)

Spec == Init /\ [][Next]_vars

(***************************************************************************)
(* Two analyze requests running concurrently.  A request runs from one     *)
(* await to the next without interruption; between two such steps the      *)
(* other request may run.  The variables pc .. resp are the locals of the  *)
(* request that is running, parked holds those of the other one.           *)
(***************************************************************************)
\* The other request gets to run.
Yield ==
    /\ parked' = [pc |-> pc, body |-> body, calls |-> calls, prompt |-> prompt,
                  completion |-> completion, analysis |-> analysis, uid |-> uid,
                  resp |-> resp]
    /\ pc' = parked.pc
    /\ body' = parked.body
    /\ calls' = parked.calls
    /\ prompt' = parked.prompt
    /\ completion' = parked.completion
    /\ analysis' = parked.analysis
    /\ uid' = parked.uid
    /\ resp' = parked.resp
    /\ self' = IF self = "request" THEN "other" ELSE "request"
    /\ UNCHANGED <<env, store, lookup, normVars, homeVars, upVars>>

\* The steps of the two requests, for one accepted body and one completion.
NextConc ==
    \/ Receive([resumeText |-> JStr(Rep("a", MinResumeLen)), metadata |-> JAbsent])
    \/ \E bytes \in RandomBytes : InferenceResolves(Braced(WellFormed), bytes)
    \/ InferenceRejects
    \/ CreateResolves
    \/ CreateRejects
    \/ Yield

SpecConc == Init /\ [][NextConc]_vars

(***************************************************************************)
(* The normalizer applied to a completion, and to its own output.          *)
(***************************************************************************)
InitNorm ==
    /\ raw \in RawCompletions
    /\ result = NoResult
    /\ again = NoResult
    /\ older = NoResult
    /\ phase = "input"
    /\ env \in {e \in Environments : e.frontendUrl = JAbsent}
    /\ store = {}
    /\ InitPipe
    /\ InitUpload
    /\ InitHome

\* The normalization block runs on the completion.
NormalizeStep ==
    /\ phase = "input"
    /\ result' = Normalize(raw)
    /\ phase' = "normalized"
    /\ UNCHANGED <<raw, again, older, pipeVars, upVars, homeVars>>

\* The payload is serialized and fed to the normalization block again.
RefeedStep ==
    /\ phase = "normalized"
    /\ again' = Normalize(Serialize(result))
    /\ phase' = "refed"
    /\ UNCHANGED <<raw, result, older, pipeVars, upVars, homeVars>>

\* The older normalization block runs on the same completion.
OlderStep ==
    /\ phase # "idle"
    /\ older = NoResult
    /\ older' = NormalizeOlder(raw)
    /\ UNCHANGED <<raw, result, again, phase, pipeVars, upVars, homeVars>>

NextNorm == NormalizeStep \/ RefeedStep \/ OlderStep

SpecNorm == InitNorm /\ [][NextNorm]_vars

(***************************************************************************)
(* The upload route, POST /resume: its steps.  A response message is a     *)
(* sequence of parts, so that a message built from an error's message      *)
(* shows it.                                                               *)
(***************************************************************************)
\* req.file as multer leaves it.
Files ==
    {[mimetype |-> "image/png", size |-> 2048], [mimetype |-> "image/jpeg", size |-> 4096],
     [mimetype |-> "application/pdf", size |-> 8192]}

\* The messages of the errors the collaborators raise.
InternalErrors ==
    {"ENOENT: no such file or directory, open 'uploads/resume-1.png'",
     "Worker failed to load language data"}

\* What worker.recognize reads from an image.
OcrTexts ==
    {<<>>, Rep(" ", MinTextLen + Over),
     Rep(" ", Over) \o Rep("a", MinTextLen - 1) \o Rep("\n", 1),
     Rep("\n", 1) \o Rep("a", MinTextLen) \o Rep(" ", Over),
     Rep("a", MinTextLen + Over)}

\* pdfData.Pages: undefined, or the pages; a page is undefined (no Texts) or
\* the T of its text runs, in order.
PdfDocs ==
    {JAbsent, JArr(<<>>), JArr(<<JAbsent>>),
     JArr(<<JArr(<<JStr(Rep("a", MinTextLen - 1))>>)>>),
     JArr(<<JArr(<<JStr(Rep("a", MinTextLen))>>)>>),
     JArr(<<JArr(<<JStr(Rep("a", MinTextLen - 3) \o Lit(<<"%", "2", "0", "b">>))>>)>>),
     JArr(<<JArr(<<JStr(Rep("a", MinTextLen - 2) \o Lit(<<"%", "2", "0", "b">>))>>)>>),
     JArr(<<JArr(<<JStr(Rep("a", MinTextLen) \o Lit(<<"%">>))>>)>>),
     JArr(<<JArr(<<JStr(Rep("a", Over)), JStr(<<>>), JStr(Rep("b", Over))>>), JAbsent,
            JArr(<<JStr(Rep("c", MinTextLen - 2 * Over - 3))>>)>>),
     JArr(<<JArr(<<JStr(Rep("a", Over)), JStr(<<>>), JStr(Rep("b", Over))>>), JAbsent,
            JArr(<<JStr(Rep("c", MinTextLen - 2 * Over - 4))>>)>>)}

\* cleanupFile: fs is the callback API ('fs', not 'fs/promises'), and
\* fs.access called without a callback throws a TypeError before it does
\* anything; the catch swallows it, and fs.unlink is never reached.  The
\* temporary file is left as it is, present or absent.
CleanupFile(filePath) == filePath

\* decodeURIComponent on the characters cs: [ok |-> TRUE, cs |-> decoded], or
\* [ok |-> FALSE] for a URIError.  Of the escapes, "%20" is modelled; any
\* other "%" is malformed.
DecodeChars(cs) ==
    LET escapes == {i \in DOMAIN cs : cs[i] = "%"}
        wellFormed(i) == i + 2 <= Len(cs) /\ cs[i + 1] = "2" /\ cs[i + 2] = "0"
        kept == {i \in DOMAIN cs : \A j \in escapes : i \notin {j + 1, j + 2}}
        nth(r) == CHOOSE i \in kept : Cardinality({j \in kept : j <= i}) = r
    IN IF \E i \in escapes : ~wellFormed(i) THEN [ok |-> FALSE]
       ELSE [ok |-> TRUE,
             cs |-> [r \in 1..Cardinality(kept) |->
                       IF cs[nth(r)] = "%" THEN " " ELSE cs[nth(r)]]]

\* decodeURIComponent(s)
DecodeURIComponent(s) ==
    LET string(d) == IF d.ok THEN [ok |-> TRUE, s |-> Lit(d.cs)] ELSE [ok |-> FALSE]
    IN string(DecodeChars(Expand(s)))

\* Lines 533-543: extractedText += decodeURIComponent(textRun.T) + ' ' for
\* every run with a truthy T.
RECURSIVE RunsText(_)
RunsText(ts) ==
    LET one(t) == IF Truthy(t) THEN DecodeURIComponent(t.s) ELSE [ok |-> TRUE, s |-> <<>>]
        spaced(t, d) == IF ~d.ok THEN d
                        ELSE IF Truthy(t) THEN [ok |-> TRUE, s |-> Concat(d.s, Rep(" ", 1))]
                        ELSE d
        add(first, rest) == IF ~first.ok \/ ~rest.ok THEN [ok |-> FALSE]
                            ELSE [ok |-> TRUE, s |-> Concat(first.s, rest.s)]
    IN IF ts = <<>> THEN [ok |-> TRUE, s |-> <<>>]
       ELSE add(spaced(Head(ts), one(Head(ts))), RunsText(Tail(ts)))

\* Lines 526-547: the text of the pages, a newline after every page that has
\* Texts.
RECURSIVE PagesText(_)
PagesText(pages) ==
    LET page(p) == IF p.t = "arr" THEN RunsText(p.a) ELSE [ok |-> TRUE, s |-> <<>>]
        line(p, d) == IF d.ok /\ p.t = "arr"
                      THEN [ok |-> TRUE, s |-> Concat(d.s, Rep("\n", 1))]
                      ELSE d
        add(first, rest) == IF ~first.ok \/ ~rest.ok THEN [ok |-> FALSE]
                            ELSE [ok |-> TRUE, s |-> Concat(first.s, rest.s)]
    IN IF pages = <<>> THEN [ok |-> TRUE, s |-> <<>>]
       ELSE add(line(Head(pages), page(Head(pages))), PagesText(Tail(pages)))

\* Lines 526-547: extractedText before it is trimmed, [ok |-> TRUE, s |-> text],
\* or [ok |-> FALSE] when decoding throws.
PdfText(doc) == IF doc.t = "arr" THEN PagesText(doc.a) ELSE [ok |-> TRUE, s |-> <<>>]

\* Lines 549-553: resolve(extractedText.trim()), or reject(error).
Trimmed(d) == IF d.ok THEN [ok |-> TRUE, s |-> Trim(d.s)] ELSE d

\* The data of a successful extraction.
Extracted(reqFile, text, method) ==
    [status |-> 200, success |-> TRUE,
     data |-> [fileSize |-> reqFile.size, mimeType |-> reqFile.mimetype,
               textLength |-> StrLen(text), extractedText |-> text,
               processingMethod |-> method]]

ScannedPdf ==
    [status |-> 400, success |-> FALSE,
     message |-> <<"This appears to be a scanned PDF. Please convert your resume to JPG or PNG format and upload as an image file for OCR processing.">>]

\* Lines 463-473: the catch of performImageOCR.
OcrFailed(cause) ==
    [status |-> 500, success |-> FALSE, message |-> <<"Image OCR failed: ", cause>>]

\* Lines 440-461: the result of performImageOCR for the trimmed text.
OcrOutcome(reqFile, ocrText) ==
    IF StrLen(ocrText) < MinTextLen
    THEN [status |-> 400, success |-> FALSE,
          message |-> <<"OCR completed but could not extract sufficient readable text from the image.">>]
    ELSE Extracted(reqFile, ocrText, "Image OCR")

\* A threshold one character lower.
PdfOutcomeFrom49(reqFile, value) ==
    IF value.ok /\ StrLen(value.s) >= MinTextLen - 1
    THEN Extracted(reqFile, value.s, "PDF Extraction")
    ELSE ScannedPdf

\* Lines 563-602: the response for the settled promise of parsePDF.
PdfOutcome(reqFile, value) ==
    IF value.ok /\ StrLen(value.s) >= MinTextLen
    THEN Extracted(reqFile, value.s, "PDF Extraction")
    ELSE ScannedPdf

\* res.status(...).json(...)
Send(response) ==
    /\ uresp' = response
    /\ usent' = usent + 1
    /\ upc' = "done"

\* multer ends the request with an error (the file filter, the size limit):
\* the global error handler of server.js answers.
MulterRejects(err) ==
    /\ upc = "idle"
    /\ Send([status |-> IF err.status = 0 THEN 500 ELSE err.status, success |-> FALSE,
             message |-> IF env.nodeEnv = "production" THEN <<"An error occured">>
                         ELSE <<err.message>>])
    /\ UNCHANGED <<ufile, tmp, worker, timer, settled, events, reading, normVars, homeVars, pipeVars>>

\* Lines 480-509 and 604-619: no file; an image, for which the OCR worker is
\* requested; a PDF, for which the parser is built and parsePDF started (the
\* timer armed, the handlers registered, the file loaded).
UploadReceive(f, parserBuilt, cause) ==
    /\ upc = "idle"
    /\ ufile' = f
    /\ UNCHANGED <<worker, events, reading, normVars, homeVars, pipeVars>>
    /\ IF f = NoFile
       THEN /\ Send([status |-> 400, success |-> FALSE, message |-> <<"No file uploaded">>])
            /\ UNCHANGED <<tmp, timer, settled>>
       ELSE IF f.mimetype \in {"image/png", "image/jpeg"}
       THEN /\ upc' = "ocrCreating"
            /\ tmp' = "present"
            /\ UNCHANGED <<timer, settled, uresp, usent>>
       ELSE IF ~parserBuilt
       THEN \* new PDFParser() throws: the outer catch answers
            /\ tmp' = CleanupFile("present")
            /\ Send([status |-> 500, success |-> FALSE, message |-> <<cause>>])
            /\ UNCHANGED <<timer, settled>>
       ELSE /\ upc' = "parsing"
            /\ tmp' = "present"
            /\ timer' = "armed"
            /\ settled' = "pending"
            /\ UNCHANGED <<uresp, usent>>

\* The temporary file is removed by someone else while the request runs.
FileVanishes ==
    /\ upc \notin {"idle", "done"}
    /\ tmp = "present"
    /\ tmp' = "absent"
    /\ UNCHANGED <<upc, ufile, worker, timer, settled, events, reading, uresp, usent, normVars, homeVars,
                   pipeVars>>

\* Line 434: createWorker resolves.
WorkerCreated ==
    /\ upc = "ocrCreating"
    /\ worker' = "acquired"
    /\ upc' = "ocrRecognizing"
    /\ UNCHANGED <<ufile, tmp, timer, settled, events, reading, uresp, usent, normVars, homeVars, pipeVars>>

\* Line 434 rejects: lines 463-473.
WorkerCreateFails(cause) ==
    /\ upc = "ocrCreating"
    /\ tmp' = CleanupFile(tmp)
    /\ Send(OcrFailed(cause))
    /\ UNCHANGED <<ufile, worker, timer, settled, events, reading, normVars, homeVars, pipeVars>>

\* Line 435 resolves: lines 436-461 and 506.
RecognizeResolves(text) ==
    /\ upc = "ocrRecognizing"
    /\ worker' = "terminated"
    /\ tmp' = CleanupFile(tmp)
    /\ reading' = [ok |-> TRUE, s |-> text]
    /\ Send(OcrOutcome(ufile, Trim(text)))
    /\ UNCHANGED <<ufile, timer, settled, events, normVars, homeVars, pipeVars>>

\* Line 435 rejects: lines 463-473 and 506.
RecognizeRejects(cause) ==
    /\ upc = "ocrRecognizing"
    /\ tmp' = CleanupFile(tmp)
    /\ Send(OcrFailed(cause))
    /\ UNCHANGED <<ufile, worker, timer, settled, events, reading, normVars, homeVars, pipeVars>>

\* A route that answers every time the promise is resolved or rejected.
SettleEveryTime(value) ==
    /\ settled' = "settled"
    /\ tmp' = CleanupFile(tmp)
    /\ Send(PdfOutcome(ufile, value))

\* The promise of parsePDF is resolved or rejected: the first time it settles
\* and the route goes on after `await parsePDF()`, lines 563-602; any later
\* time nothing happens.
Settle(value) ==
    IF settled = "pending"
    THEN /\ settled' = "settled"
         /\ tmp' = CleanupFile(tmp)
         /\ Send(PdfOutcome(ufile, value))
    ELSE UNCHANGED <<settled, tmp, uresp, usent, upc>>

\* Lines 513-515: the 30 second timer expires.
TimerFires ==
    /\ timer = "armed"
    /\ timer' = "fired"
    /\ events' = Append(events, "timeout")
    /\ Settle([ok |-> FALSE])
    /\ UNCHANGED <<ufile, worker, reading, normVars, homeVars, pipeVars>>

\* Lines 517-520: the parser reports a data error.
DataError ==
    /\ settled # "none"
    /\ "dataError" \notin {events[i] : i \in DOMAIN events}
    /\ timer' = IF timer = "armed" THEN "cleared" ELSE timer
    /\ events' = Append(events, "dataError")
    /\ Settle([ok |-> FALSE])
    /\ UNCHANGED <<ufile, worker, reading, normVars, homeVars, pipeVars>>

\* Lines 522-555: the parser reports the data ready.
DataReady(doc) ==
    /\ settled # "none"
    /\ "dataReady" \notin {events[i] : i \in DOMAIN events}
    /\ timer' = IF timer = "armed" THEN "cleared" ELSE timer
    /\ events' = Append(events, "dataReady")
    /\ reading' = IF settled = "pending" THEN PdfText(doc) ELSE reading
    /\ Settle(Trimmed(PdfText(doc)))
    /\ UNCHANGED <<ufile, worker, normVars, homeVars, pipeVars>>

InitUploadSpec ==
    /\ env \in Environments
    /\ store = {}
    /\ InitPipe
    /\ InitUpload
    /\ InitHome
    /\ raw = <<>>
    /\ result = NoResult
    /\ again = NoResult
    /\ older = NoResult
    /\ phase = "idle"

NextUpload ==
    \/ \E err \in {[status |-> 0, message |-> "Only PDF, JPG, and PNG files are allowed!"],
                   [status |-> 0, message |-> "File too large"]} : MulterRejects(err)
    \/ \E f \in Files \cup {NoFile}, parserBuilt \in BOOLEAN, cause \in InternalErrors :
          UploadReceive(f, parserBuilt, cause)
    \/ FileVanishes
    \/ WorkerCreated
    \/ \E cause \in InternalErrors : WorkerCreateFails(cause)
    \/ \E text \in OcrTexts : RecognizeResolves(text)
    \/ \E cause \in InternalErrors : RecognizeRejects(cause)
    \/ TimerFires
    \/ DataError
    \/ \E doc \in PdfDocs : DataReady(doc)

SpecUpload == InitUploadSpec /\ [][NextUpload]_vars

\* The event loop runs a timer that is due.
FairSpecUpload == SpecUpload /\ WF_vars(TimerFires)

(***************************************************************************)
(* Claims about the normalizer (checked under SpecNorm).                   *)
(***************************************************************************)
ParsesToObject(content) ==
    ParseCompletion(content).ok /\ ParseCompletion(content).v.t = "obj"

\* The field of the parsed completion, undefined when it is missing.
InputField(key) == Get(ParseCompletion(raw).v.m, key)

IsWhole(h) == h % 2 = 0

Clamp(h) == IF h < 0 THEN 0 ELSE IF h > 2 * MaxScore THEN 2 * MaxScore ELSE h

WithinBounds(data) ==
    /\ IsWhole(data.overallScore)
    /\ data.overallScore \in 0..(2 * MaxScore)
    /\ StrLen(data.summary) <= MaxSummaryLen
    /\ \A key \in ListKeys :
          /\ Len(data[key]) <= ListLimit(key)
          /\ \A i \in DOMAIN data[key] : data[key][i] # <<>>
    /\ CategoryKeys \subseteq DOMAIN data.categories
    /\ \A c \in CategoryKeys :
          IsWhole(data.categories[c]) /\ data.categories[c] \in 0..(2 * MaxScore)

\* C1: every raw completion normalizes to a payload within the bounds of the
\* data model: an integer overallScore in [0,10], a summary of at most 500
\* characters, lists within their limits and of non-empty strings only, and
\* the five category keys, each an integer in [0,10].
C1_PayloadWithinBounds == phase # "input" => WithinBounds(result)

\* C2: normalization is idempotent: the payload, serialized and normalized
\* again, is the same payload.
C2_Idempotent == phase = "refed" => again = result

\* C3: for a completion that parses to an object, overallScore is the numeric
\* input clamped to [0,10], and 7 when the input has none.
C3_ScoreIsClampedInput ==
    (phase # "input" /\ ParsesToObject(raw)) =>
        LET v == InputField("overallScore")
        IN /\ v.t = "num" => result.overallScore = Clamp(v.h)
           /\ v.t = "absent" => result.overallScore = 2 * DefaultScore

\* C4: for a completion that parses to an object, categories holds the five
\* keys; with an object as input, a supplied number is clamped to [0,10] and a
\* missing key is 7; with no object as input, all five are 7.
C4_CategoriesMerged ==
    (phase # "input" /\ ParsesToObject(raw)) =>
        LET v == InputField("categories")
        IN /\ CategoryKeys \subseteq DOMAIN result.categories
           /\ \A c \in CategoryKeys :
                 IF v.t = "obj" /\ c \in DOMAIN v.m
                 THEN v.m[c].t = "num" => result.categories[c] = Clamp(v.m[c].h)
                 ELSE result.categories[c] = 2 * DefaultScore

\* A list field that needs no repair: an array, within its limit, of non-empty
\* strings.
ValidList(v, key) ==
    /\ v.t = "arr"
    /\ Len(v.a) <= ListLimit(key)
    /\ \A i \in DOMAIN v.a : v.a[i].t = "str" /\ v.a[i].s # <<>>

\* C6: for a completion that parses to an object, a valid list field is kept
\* whatever the other fields are, and the record is never the hardcoded
\* fallback.
C6_FieldsIndependent ==
    (phase # "input" /\ ParsesToObject(raw)) =>
        /\ \A key \in ListKeys :
              ValidList(InputField(key), key) =>
                  result[key] = [i \in DOMAIN InputField(key).a |-> InputField(key).a[i].s]
        /\ result.summary # FallbackSummary

(***************************************************************************)
(* Claims about the analysis routes (checked under Spec).                  *)
(***************************************************************************)
\* The request has received the inference response.
Completed == completion # NoCompletion

\* C5: whenever the parse of the cleaned completion raises, the payload is
\* exactly the hardcoded fallback (overallScore 7, categories 7 with
\* achievements 6, the fixed summary and lists), whatever the completion is,
\* and the request has gone on to Analysis.create.
C5_ParseFailureGivesFallback ==
    (Completed /\ ~ParseCompletion(completion).ok) =>
        /\ analysis = Fallback
        /\ analysis.overallScore = 2 * 7
        /\ analysis.categories = [formatting |-> 2 * 7, content |-> 2 * 7, skills |-> 2 * 7,
                                  experience |-> 2 * 7, achievements |-> 2 * 6]
        /\ calls = <<"chatCompletion", "create">>
        /\ resp.status = 500 => pc = "done" /\ resp.message = AnalysisFailed(env, "").message

\* An unparsable completion that holds a brace went through to a stored record.
C5_Witness ==
    /\ completion = <<Tok("lb"), Members(WellFormed)>>
    /\ resp.status = 200
    /\ resp.data.categories["achievements"] = 2 * 6
    /\ \E rec \in store : rec.by = "request" /\ rec.analysisData = Fallback

\* The length of s without its leading and trailing white space.
TrimmedLength(s) ==
    LET solid == {i \in DOMAIN s : s[i].c \notin {" ", "\n"}}
    IN IF solid = {} THEN 0
       ELSE StrLen(SubSeq(s, CHOOSE i \in solid : \A j \in solid : i <= j,
                          CHOOSE i \in solid : \A j \in solid : i >= j))

\* resumeText is missing, or a string of fewer than 100 trimmed characters.
MissingOrShort(v) ==
    \/ v.t \in {"absent", "null"}
    \/ v.t = "str" /\ TrimmedLength(v.s) < 100

\* C7: POST /analyze answers 400 exactly when resumeText is missing or its
\* trimmed length is below 100; then the inference service is not called and
\* the request stores no record.
C7_GateRejectsExactlyShortText ==
    pc # "idle" =>
        /\ (pc = "done" /\ resp.status = 400) <=> MissingOrShort(body.resumeText)
        /\ MissingOrShort(body.resumeText) =>
              /\ resp = InvalidInput
              /\ calls = <<>>
              /\ \A rec \in store : rec.by # "request"

\* A text of 99 characters inside white space was rejected, with no call made.
C7_Witness ==
    /\ body.resumeText = JStr(Rep(" ", Over) \o Rep("a", 99) \o Rep("\n", Over))
    /\ resp.status = 400
    /\ calls = <<>>

\* p is a prefix of t.
IsPrefix(p, t) ==
    \/ p = <<>>
    \/ /\ Len(p) <= Len(t)
       /\ \A i \in 1..(Len(p) - 1) : p[i] = t[i]
       /\ p[Len(p)].c = t[Len(p)].c
       /\ p[Len(p)].n <= t[Len(p)].n

\* C8: for every accepted request, the text sent to the inference service is
\* the prefix of the submitted text of length min(length, 50000).
C8_PromptIsBoundedPrefix ==
    calls # <<>> =>
        /\ calls[1] = "chatCompletion"
        /\ IsPrefix(prompt, body.resumeText.s)
        /\ StrLen(prompt) = Min(StrLen(body.resumeText.s), 50000)

\* A text longer than the maximum was sent cut, its tail dropped.
C8_Witness ==
    /\ calls # <<>>
    /\ body.resumeText = JStr(Rep("a", 50000 - 1) \o Rep("b", Over))
    /\ prompt = Rep("a", 50000 - 1) \o Rep("b", 1)

\* Exactly 16 characters, each a digit or one of a..f.
SixteenLowerHex(id) ==
    /\ StrLen(id) = 16
    /\ \A i \in DOMAIN id :
          id[i].c \in {"0", "1", "2", "3", "4", "5", "6", "7", "8", "9",
                       "a", "b", "c", "d", "e", "f"}

\* C9: GET /:uniqueId queries the store only for identifiers of exactly 16
\* lowercase hexadecimal characters; any other identifier is answered 400
\* without a query.
C9_LookupValidatesIdentifier ==
    lookup # NoLookup =>
        /\ lookup.queried => SixteenLowerHex(lookup.id)
        /\ ~SixteenLowerHex(lookup.id) =>
              lookup.status = 400 /\ lookup.message = "Invalid analysis ID format"
        /\ SixteenLowerHex(lookup.id) => lookup.queried /\ lookup.status # 400

\* Sixteen uppercase hexadecimal characters were rejected without a query.
C9_Witness ==
    /\ lookup.id = Rep("A", 16)
    /\ lookup.status = 400
    /\ ~lookup.queried

\* The configured base URL: FRONTEND_URL, or the default when it is not set.
ConfiguredBase == IF Truthy(env.frontendUrl) THEN env.frontendUrl.s ELSE DefaultFrontendUrl

\* b is base without its trailing slashes.
IsStripped(b, base) ==
    /\ \E k \in 0..Len(base) :
          /\ b = SubSeq(base, 1, k)
          /\ \A i \in (k + 1)..Len(base) : base[i].c = "/"
    /\ b # <<>> => b[Len(b)].c # "/"

\* C10: a successful analyze response carries an identifier of 16 lowercase
\* hexadecimal characters, which is the uniqueId of the record this request
\* stored and which the lookup's format check accepts, and a link that is the
\* configured base URL without trailing slashes, then /analysis/, then the
\* identifier.
C10_IssuedIdentifierAndLink ==
    resp.status = 200 =>
        /\ SixteenLowerHex(resp.uniqueId)
        /\ IsValidId(resp.uniqueId)
        /\ \E rec \in store : rec.by = "request" /\ rec.uniqueId = resp.uniqueId
        /\ \A rec \in store : rec.by = "request" => rec.uniqueId = resp.uniqueId
        /\ \E b \in {SubSeq(ConfiguredBase, 1, k) : k \in 0..Len(ConfiguredBase)} :
              /\ IsStripped(b, ConfiguredBase)
              /\ resp.shareableLink =
                    Concat(Concat(b, Lit(<<"/", "a", "n", "a", "l", "y", "s", "i", "s", "/">>)),
                           resp.uniqueId)

\* A success with a base URL configured with trailing slashes.
C10_Witness ==
    /\ resp.status = 200
    /\ env.frontendUrl = JStr(Lit(<<"h", ":", "/", "/", "r", ".", "i", "o", "/", "/">>))
    /\ resp.shareableLink =
          Lit(<<"h", ":", "/", "/", "r", ".", "i", "o", "/", "a", "n", "a", "l", "y", "s",
                "i", "s", "/">>) \o Rep("0", 16)

\* C11: every failure of an analyze request after the input gate (token not
\* configured, inference failing, persistence failing) carries one and the
\* same generic message.
C11_OneGenericFailure ==
    (pc = "done" /\ resp.status \notin {200, 400}) =>
        resp.message = "Failed to analyze resume. Please try again."

\* The record this request stored, if any.
OwnRecords == {rec \in store : rec.by = "request"}

\* The steps taken so far are in the order call, normalization, persistence,
\* response.
StepsInOrder ==
    /\ calls \in {<<>>, <<"chatCompletion">>, <<"chatCompletion", "create">>}
    /\ Completed <=> analysis # NoResult
    /\ Completed <=> "create" \in {calls[i] : i \in DOMAIN calls}
    /\ Cardinality(OwnRecords) <= 1
    /\ OwnRecords # {} => Completed /\ \A rec \in OwnRecords : rec.uniqueId = uid
    /\ resp.status = 200 <=> OwnRecords # {}
    /\ resp # NoResponse <=> pc = "done"
    /\ (pc = "done" /\ calls = <<"chatCompletion">>) => resp.status = 500 /\ OwnRecords = {}

\* Each step happens at most once: a call made, a payload computed, a record
\* stored and a response sent are never made, computed, stored or sent again.
StepsOnce ==
    /\ \A i \in DOMAIN calls : i \in DOMAIN calls' /\ calls'[i] = calls[i]
    /\ Len(calls') <= Len(calls) + 1
    /\ analysis # NoResult => analysis' = analysis
    /\ OwnRecords # {} => store' = store
    /\ resp # NoResponse => resp' = resp

\* C12: within one analyze request the steps run in the order gate, inference
\* call, normalization, persistence, response, each at most once; a record is
\* stored only after the inference call returned, a success is sent only after
\* the record was stored, and a failed inference call stores nothing.
C12_LinearPipeline == []StepsInOrder /\ [][StepsOnce]_vars

\* The request went through all the steps.
C12_Witness ==
    /\ pc = "done"
    /\ calls = <<"chatCompletion", "create">>
    /\ resp.status = 200
    /\ OwnRecords # {}

(***************************************************************************)
(* Claims about the upload route (checked under SpecUpload, the liveness   *)
(* claim under FairSpecUpload).                                            *)
(***************************************************************************)
\* C13: when the response of an upload that reached extraction is sent, the
\* temporary file no longer exists, whatever the outcome.
C13_TemporaryFileRemoved == (upc = "done" /\ tmp # "none") => tmp = "absent"

\* C14: the OCR worker created for an image upload is terminated on every
\* exit path: no request ends with its worker still acquired.
C14_WorkerReleased == upc = "done" => worker # "acquired"

\* C15: a successful extraction carries a trimmed text of at least 50
\* characters and its exact length as textLength; an extracted text succeeds
\* exactly when its trimmed length is at least 50.
C15_ExtractedTextIsSubstantial ==
    /\ uresp.status = 200 =>
          /\ StrLen(uresp.data.extractedText) >= 50
          /\ uresp.data.textLength = StrLen(uresp.data.extractedText)
          /\ uresp.data.extractedText[1].c \notin {" ", "\n"}
          /\ uresp.data.extractedText[Len(uresp.data.extractedText)].c \notin {" ", "\n"}
          /\ reading # NoReading /\ reading.ok
          /\ uresp.data.textLength = TrimmedLength(reading.s)
    /\ (upc = "done" /\ reading # NoReading) =>
          (uresp.status = 200 <=> reading.ok /\ TrimmedLength(reading.s) >= 50)

\* A PDF text of exactly 50 characters after trimming was accepted.
C15_Witness ==
    /\ uresp.status = 200
    /\ uresp.data.processingMethod = "PDF Extraction"
    /\ uresp.data.textLength = 50
    /\ StrLen(reading.s) > 50

\* The PDF path ended, and e was the first of the timer and parser events.
FirstEvent(e) == upc = "done" /\ events # <<>> /\ events[1] = e

\* C16: a parse timeout and a parser data error are each answered with an
\* outcome other than the scanned-PDF instruction that a PDF with too little
\* text gets, and other than each other's.
C16_DistinctFailureOutcomes ==
    /\ (FirstEvent("timeout") \/ FirstEvent("dataError")) =>
          uresp.message # ScannedPdf.message
    /\ FirstEvent("dataReady") /\ uresp.status # 200 => uresp.message = ScannedPdf.message

\* The request is answered at most once, by the first event, with that
\* event's outcome.
AnsweredByFirstEvent ==
    /\ usent <= 1
    /\ usent = 1 <=> upc = "done"
    /\ settled # "none" => (events # <<>> <=> upc = "done")
    /\ (FirstEvent("timeout") \/ FirstEvent("dataError")) =>
          uresp.status \notin {0, 200} /\ reading = NoReading
    /\ FirstEvent("dataReady") =>
          /\ reading # NoReading
          /\ uresp.status = 200 <=> reading.ok /\ TrimmedLength(reading.s) >= 50

\* A response sent is never replaced.
AnswerKept == usent > 0 => uresp' = uresp /\ usent' = usent

\* C17: on the PDF path, for every order of timer expiry, data error and data
\* ready, the request is answered exactly once with the outcome of the first
\* event, and every PDF upload is eventually answered.
C17_PdfAnsweredOnceByFirstEvent ==
    /\ []AnsweredByFirstEvent
    /\ [][AnswerKept]_vars
    /\ (upc = "parsing") ~> (upc = "done")

\* The timer fired first, and both parser events came after the answer.
C17_Witness ==
    /\ Len(events) = 3
    /\ events[1] = "timeout"
    /\ usent = 1
    /\ uresp.status = 400

\* C20: in production no response of the upload endpoint holds the message of
\* an internal error.
C20_NoInternalErrorTextInProduction ==
    (upc = "done" /\ env.nodeEnv = "production" /\ ~uresp.success) =>
        \A i \in DOMAIN uresp.message : uresp.message[i] \notin InternalErrors

(***************************************************************************)
(* Claims about concurrent analyze requests (checked under SpecConc) and   *)
(* about the stored records (checked under Spec).                          *)
(***************************************************************************)
\* The locals of the request named who.
LocalsOf(who) ==
    IF self = who
    THEN [pc |-> pc, calls |-> calls, uid |-> uid, resp |-> resp]
    ELSE [pc |-> parked.pc, calls |-> parked.calls, uid |-> parked.uid, resp |-> parked.resp]

\* C18: under any interleaving of two analyze requests no two records share a
\* uniqueId; when both draw the same identifier at most one of them stores a
\* record and succeeds, the other is answered with the generic failure after
\* a single create call; and the identifier of a successful response is that
\* of the request's own record and of no other.
C18_UniqueIdentifiers ==
    /\ \A r1, r2 \in store : r1.uniqueId = r2.uniqueId => r1 = r2
    /\ \A who \in {"request", "other"} :
          LET mine == LocalsOf(who)
          IN /\ mine.resp.status = 200 =>
                   /\ \E rec \in store : rec.uniqueId = mine.resp.uniqueId /\ rec.by = who
                   /\ \A rec \in store : rec.uniqueId = mine.resp.uniqueId => rec.by = who
             /\ (mine.pc = "done" /\ Len(mine.calls) = 2 /\ mine.resp.status # 200) =>
                   /\ mine.resp.status = 500
                   /\ mine.resp.message = "Failed to analyze resume. Please try again."
                   /\ mine.calls = <<"chatCompletion", "create">>
                   /\ \A rec \in store : rec.by # who
    /\ (LocalsOf("request").uid = LocalsOf("other").uid) =>
          ~(LocalsOf("request").resp.status = 200 /\ LocalsOf("other").resp.status = 200)

\* Both requests drew the same identifier; one stored its record, the other
\* was answered with the failure.
C18_Witness ==
    /\ LocalsOf("request").pc = "done"
    /\ LocalsOf("other").pc = "done"
    /\ LocalsOf("request").uid = LocalsOf("other").uid
    /\ LocalsOf("request").uid # Earlier.uniqueId
    /\ LocalsOf("other").resp.status = 200
    /\ LocalsOf("request").resp.status = 500
    /\ Cardinality({rec \in store : rec.uniqueId = LocalsOf("request").uid}) = 1

\* Every record stays as it is, and a new record is the one the request that
\* drew its identifier stores as it succeeds.
RecordsKept ==
    /\ store \subseteq store'
    /\ store' # store =>
          /\ pc = "awaitCreate"
          /\ resp'.status = 200
          /\ store' \ store = {rec \in store' : rec.by = self /\ rec.uniqueId = uid}
          /\ Cardinality(store' \ store) = 1
          /\ \A rec \in store : rec.uniqueId # uid

\* C19: a record is created once, by the successful analyze request that drew
\* its identifier; no analyze or lookup step changes or removes a record.
C19_RecordsImmutable == [][RecordsKept]_vars

\* The record of an earlier request and that of this one were both looked up
\* and are both still there.
C19_Witness ==
    /\ Earlier \in store
    /\ Cardinality(store) = 2
    /\ lookup.status = 200
    /\ lookup.id = Earlier.uniqueId

(***************************************************************************)
(* Further claims about the normalizer (checked under SpecNorm).           *)
(***************************************************************************)
\* The non-empty strings among the first limit entries of an array, in order.
FirstValidEntries(a, limit) ==
    LET idx == {i \in DOMAIN a : i <= limit /\ a[i].t = "str" /\ a[i].s # <<>>}
        nth(n) == CHOOSE i \in idx : Cardinality({j \in idx : j < i}) = n - 1
    IN [n \in 1..Cardinality(idx) |-> a[nth(n)].s]

\* C21: for a completion that parses to an object, a list field given as an
\* array becomes the non-empty strings among its first N entries, in order
\* (N = 5, and 10 for keywordSuggestions); a list field that is no array
\* becomes the field's default list.
C21_ListsSlicedThenFiltered ==
    (phase # "input" /\ ParsesToObject(raw)) =>
        \A key \in ListKeys :
            LET v == InputField(key)
            IN result[key] = IF v.t = "arr" THEN FirstValidEntries(v.a, ListLimit(key))
                             ELSE ListDefault(key)

\* The text j inside a code fence, with and without the json tag, and between
\* brace-free prose.
Wrappings(j) ==
    {<<Tok("fenceJson"), Tok("nl")>> \o j \o <<Tok("nl"), Tok("fence")>>,
     <<Tok("fence"), Tok("nl")>> \o j \o <<Tok("nl"), Tok("fence"), Tok("nl")>>,
     <<Tok("fenceJson")>> \o j \o <<Tok("fence")>>,
     <<Tok("txt"), Tok("ws")>> \o j \o <<Tok("nl"), Tok("txt")>>,
     <<Tok("txt")>> \o j,
     <<Tok("txt"), Tok("nl"), Tok("fence"), Tok("nl")>> \o j \o <<Tok("nl"), Tok("fence"), Tok("ws"), Tok("txt")>>}

\* The text of one JSON object and nothing else.
IsObjectText(toks) == Len(toks) = 3 /\ [i \in 1..3 |-> toks[i].k] = <<"lb", "members", "rb">>

\* From the first "{" to the last "}" of the text when the two enclose a span,
\* else the text.
BraceSpan(toks) ==
    LET first(lbs) == IF lbs = {} THEN 0 ELSE CHOOSE i \in lbs : \A j \in lbs : i <= j
        last(open, rbs) == IF open = 0 \/ rbs = {} THEN 0
                           ELSE CHOOSE i \in rbs : \A j \in rbs : i >= j
        span(open, close) == IF close > open /\ open > 0 THEN SubSeq(toks, open, close)
                             ELSE toks
        from(open) == span(open, last(open, {i \in DOMAIN toks : toks[i].k = "rb"}))
    IN from(first({i \in DOMAIN toks : toks[i].k = "lb"}))

\* C22: a JSON object text inside a code fence (with or without the json tag)
\* or between brace-free prose normalizes to the payload of the text alone;
\* what is parsed is the span from the first "{" to the last "}" of the
\* completion without its fences, or all of it when it has no such span.
C22_WrappingKeepsResult ==
    phase # "input" =>
        /\ IsObjectText(raw) => \A wrapped \in Wrappings(raw) : Normalize(wrapped) = result
        /\ LET outcome(parsed) ==
                   IF parsed.ok /\ Coerce(parsed.v) # Throws THEN Coerce(parsed.v) ELSE Fallback
               candidate(stripped) == outcome(JsonParse(BraceSpan(stripped)))
           IN result = candidate(TrimToks(StripFence(StripFence(TrimToks(raw), "fenceJson"),
                                                     "fence")))

\* A well-formed object inside a json fence came out as the object's payload.
C22_Witness ==
    /\ phase = "normalized"
    /\ raw = <<Tok("fenceJson"), Tok("nl")>> \o Braced(WellFormed) \o <<Tok("nl"), Tok("fence")>>
    /\ result = Normalize(Braced(WellFormed))
    /\ result.summary = Lit(<<"o", "k">>)

(***************************************************************************)
(* Further claims about the analysis routes (checked under Spec).          *)
(***************************************************************************)
\* The last lookup asked for the identifier the analyze response carries.
LookedUpOwn == resp.status = 200 /\ lookup.id = resp.uniqueId

\* C23: after a successful analyze request a lookup with the returned
\* identifier succeeds, and its analysisData equals the data of the analyze
\* response field by field, keys outside the schema included, with the
\* metadata submitted.
C23_LookupReturnsResponseData ==
    /\ [](LookedUpOwn /\ lookup.status = 200 =>
            /\ lookup.data.analysisData = resp.data
            /\ lookup.data.metadata = IF Truthy(body.metadata) THEN body.metadata
                                      ELSE JObj(<<>>))
    /\ [][(resp.status = 200 /\ lookup' # lookup /\ lookup'.id = resp.uniqueId
           /\ lookup'.status # 500) => lookup'.status = 200]_vars

\* The collection with every resumeText replaced by another text.
WithOtherTexts(st) == {[rec EXCEPT !.resumeText = Rep("z", 1)] : rec \in st}

\* A lookup leaves the collection as it is, and answers as it would had the
\* records held other resume texts.
LookupBlind ==
    lookup' # lookup =>
        /\ store' = store
        /\ lookup' = LookupResponse(WithOtherTexts(store), lookup'.id, lookup'.status # 500)

\* C24: GET /:uniqueId never changes the store, and its response holds only
\* analysisData, metadata and createdAt: stores that differ only in the
\* resumeText of their records give the same responses.
C24_LookupReadOnlyAndBlind ==
    /\ [](lookup.status = 200 =>
             DOMAIN lookup.data \subseteq {"analysisData", "metadata", "createdAt"})
    /\ [][LookupBlind]_vars

\* The record this request stored with its whole text was looked up.
C24_Witness ==
    /\ lookup.status = 200
    /\ LookedUpOwn
    /\ \E rec \in store : rec.uniqueId = lookup.id /\ StrLen(rec.resumeText) >= MinResumeLen

\* C25: every text sent to the inference service has at least 100 characters
\* after trimming, also when the submitted text begins with a long run of
\* white space.
C25_AnalyzedTextIsSubstantial ==
    calls # <<>> => StrLen(Trim(prompt)) >= MinResumeLen

(***************************************************************************)
(* The two variants of the normalization block (checked under SpecNorm).   *)
(***************************************************************************)
\* The completion follows the schema: numbers for overallScore and for the
\* values of categories, the five keys among them; a string for summary;
\* arrays of non-empty strings for the lists.
FollowsSchema(m) ==
    /\ SchemaKeys \subseteq DOMAIN m
    /\ m["overallScore"].t = "num"
    /\ m["summary"].t = "str"
    /\ m["categories"].t = "obj"
    /\ CategoryKeys \subseteq DOMAIN m["categories"].m
    /\ \A c \in DOMAIN m["categories"].m : m["categories"].m[c].t = "num"
    /\ \A key \in ListKeys :
          /\ m[key].t = "arr"
          /\ \A i \in DOMAIN m[key].a : m[key].a[i].t = "str" /\ m[key].a[i].s # <<>>

\* C26: for a completion that parses to an object following the schema, the
\* older and the current normalization block give the same payload.
C26_VariantsAgreeOnWellFormed ==
    (phase # "input" /\ older # NoResult /\ ParsesToObject(raw)
     /\ FollowsSchema(ParseCompletion(raw).v.m)) =>
        /\ older.overallScore = result.overallScore
        /\ older.summary = result.summary
        /\ older.categories = result.categories
        /\ \A key \in ListKeys : older[key] = [i \in DOMAIN result[key] |-> JStr(result[key][i])]
        /\ older.rest = result.rest
        /\ older.array = result.array

\* Both blocks ran on a completion that follows the schema with a list longer
\* than its limit.
C26_Witness ==
    /\ phase # "input" /\ older # NoResult /\ ParsesToObject(raw)
    /\ FollowsSchema(ParseCompletion(raw).v.m)
    /\ Len(InputField("keywordSuggestions").a) > MaxKeywords
    /\ Len(older.keywordSuggestions) = MaxKeywords
    /\ older.overallScore = 16

(***************************************************************************)
(* The Home page: its steps.  A handler runs to its first await, or to its *)
(* end, without interruption, and the page is rendered again before the    *)
(* next event: a button acts only when it is rendered and not disabled.     *)
(***************************************************************************)
\* What the user may pick or drop: two files the page accepts, one of a type
\* it does not, one too large, and nothing (e.target.files[0] undefined).
Selectable ==
    {[name |-> "a.pdf", size |-> 2048, type |-> "application/pdf"],
     [name |-> "b.png", size |-> 4096, type |-> "image/png"],
     [name |-> "c.txt", size |-> 512, type |-> "text/plain"],
     [name |-> "d.pdf", size |-> MaxFileSize + 1, type |-> "application/pdf"],
     [name |-> "undefined", size |-> 0, type |-> "undefined"]}

\* data.data.extractedText of the upload response for the file sent.
TextOf(sent) == <<"text of", sent.name>>

\* How a request ends: the server answers success, or it answers failure with
\* or without a message, or fetch or response.json() rejects.
Outcomes == {"success", "failure", "failure without message", "rejected"}

\* Lines 20-47.
HandleFileSelect(selectedFile) ==
    /\ IF selectedFile.name # "undefined"
          /\ selectedFile.type \in {"application/pdf", "image/jpeg", "image/jpg", "image/png"}
       THEN IF selectedFile.size > MaxFileSize
            THEN /\ error' = "File size must be less than 10MB"
                 /\ file' = NoSelection
                 /\ UNCHANGED <<extractedText, report>>
            ELSE /\ file' = selectedFile
                 /\ error' = ""
                 /\ extractedText' = <<>>
                 /\ report' = NoSelection
       ELSE /\ error' = "Please select a PDF, JPG, or PNG file."
            /\ file' = NoSelection
            /\ UNCHANGED <<extractedText, report>>
    /\ UNCHANGED <<uploading, analyzing, uploads, analyses, normVars, pipeVars, upVars>>

\* Lines 213-225: the Remove file button, rendered when a file is selected.
RemoveFile ==
    /\ file # NoSelection
    /\ file' = NoSelection
    /\ UNCHANGED <<uploading, extractedText, analyzing, report, error, uploads, analyses,
                   normVars, pipeVars, upVars>>

\* An Extract Text button that is never disabled.
ExtractTextNeverDisabled == file # NoSelection /\ extractedText = <<>>

\* Lines 227-231: the Extract Text button is rendered and enabled.
ExtractTextEnabled == file # NoSelection /\ extractedText = <<>> /\ ~uploading

\* Lines 64-82: uploadFile up to its await of fetch.
UploadFile ==
    /\ ExtractTextEnabled
    /\ Len(uploads) < MaxInFlight
    /\ uploading' = TRUE
    /\ error' = ""
    /\ extractedText' = <<>>
    /\ report' = NoSelection
    /\ uploads' = Append(uploads, file)
    /\ UNCHANGED <<file, analyzing, analyses, normVars, pipeVars, upVars>>

\* The sequence without its i-th element.
Without(seq, i) == SubSeq(seq, 1, i - 1) \o SubSeq(seq, i + 1, Len(seq))

\* Lines 84-106: uploadFile after its awaits, for the i-th request in flight.
UploadCompletes(i, outcome) ==
    /\ i \in DOMAIN uploads
    /\ uploads' = Without(uploads, i)
    /\ uploading' = FALSE
    /\ CASE outcome = "success" ->
               extractedText' = TextOf(uploads[i]) /\ UNCHANGED error
         [] outcome = "failure" ->
               error' = "OCR completed but could not extract sufficient readable text from the image."
               /\ UNCHANGED extractedText
         [] outcome = "failure without message" ->
               error' = "Upload failed" /\ UNCHANGED extractedText
         [] OTHER ->
               error' = "Network error. Please check your connection and try again."
               /\ UNCHANGED extractedText
    /\ UNCHANGED <<file, analyzing, report, analyses, normVars, pipeVars, upVars>>

\* Lines 243-253: the Analyze button is rendered and enabled.
AnalyzeEnabled == extractedText # <<>> /\ report = NoSelection /\ ~analyzing

\* Lines 109-132: analyzeResume up to its await of fetch.  With no file
\* selected, reading file.name throws inside the try before fetch is called:
\* the catch and the finally run at once.
AnalyzeResume ==
    /\ AnalyzeEnabled
    /\ Len(analyses) < MaxInFlight
    /\ IF file = NoSelection
       THEN /\ error' = "Network error during analysis. Please try again."
            /\ UNCHANGED <<analyzing, analyses>>
       ELSE /\ analyzing' = TRUE
            /\ error' = ""
            /\ analyses' =
                  Append(analyses,
                         [resumeText |-> extractedText,
                          metadata |-> [filename |-> file.name, fileSize |-> file.size,
                                        processingMethod |->
                                            IF file.type \in {"image/jpeg", "image/jpg", "image/png"}
                                            THEN "Image OCR" ELSE "PDF Extraction"]])
    /\ UNCHANGED <<file, uploading, extractedText, report, uploads, normVars, pipeVars, upVars>>

\* Lines 134-158: analyzeResume after its awaits, for the i-th request in
\* flight.
AnalyzeCompletes(i, outcome) ==
    /\ i \in DOMAIN analyses
    /\ analyses' = Without(analyses, i)
    /\ analyzing' = FALSE
    /\ CASE outcome = "success" ->
               report' = [name |-> "analysis", of |-> analyses[i]] /\ UNCHANGED error
         [] outcome = "failure" ->
               error' = "Failed to analyze resume. Please try again." /\ UNCHANGED report
         [] outcome = "failure without message" ->
               error' = "Analysis failed" /\ UNCHANGED report
         [] OTHER ->
               error' = "Network error during analysis. Please try again."
               /\ UNCHANGED report
    /\ UNCHANGED <<file, uploading, extractedText, uploads, normVars, pipeVars, upVars>>

\* Lines 344-348: the Analyze Another Resume button, rendered with the results.
Reset ==
    /\ report # NoSelection
    /\ file' = NoSelection
    /\ extractedText' = <<>>
    /\ report' = NoSelection
    /\ UNCHANGED <<uploading, analyzing, error, uploads, analyses, normVars, pipeVars, upVars>>

InitHomeSpec ==
    /\ env \in {e \in Environments : e.frontendUrl = JAbsent}
    /\ store = {}
    /\ InitPipe
    /\ InitUpload
    /\ InitHome
    /\ raw = <<>>
    /\ result = NoResult
    /\ again = NoResult
    /\ older = NoResult
    /\ phase = "idle"

NextHome ==
    \/ \E selectedFile \in Selectable : HandleFileSelect(selectedFile)
    \/ RemoveFile
    \/ UploadFile
    \/ \E i \in 1..MaxInFlight, outcome \in Outcomes : UploadCompletes(i, outcome)
    \/ AnalyzeResume
    \/ \E i \in 1..MaxInFlight, outcome \in Outcomes : AnalyzeCompletes(i, outcome)
    \/ Reset

SpecHome == InitHomeSpec /\ [][NextHome]_vars

(***************************************************************************)
(* Claims about the Home page (checked under SpecHome).                    *)
(***************************************************************************)
\* The network error of analyzeResume appears only as a request in flight
\* ends.
NetworkErrorHasRequest ==
    (error' = "Network error during analysis. Please try again." /\ error' # error) =>
        Len(analyses') < Len(analyses)

\* C27: after any sequence of user actions and request completions a
\* non-empty extractedText implies a selected file, so analyzeResume never
\* runs with file null and never reports a network error without a request.
C27_TextImpliesFile ==
    /\ [](extractedText # <<>> => file # NoSelection)
    /\ [][NetworkErrorHasRequest]_vars

\* C28: under every interleaving of user actions with the completion of an
\* upload in flight, the extractedText is the extraction of the file now
\* selected, and an analyze request pairs a text with its own file's
\* metadata.
C28_TextIsOfSelectedFile ==
    /\ (extractedText # <<>> /\ file # NoSelection) => extractedText = TextOf(file)
    /\ \A i \in DOMAIN analyses :
          analyses[i].resumeText = <<"text of", analyses[i].metadata.filename>>

\* C29: uploading is true exactly while an upload request is in flight,
\* analyzing exactly while an analyze request is; at most one request of each
\* kind is in flight.
C29_FlagsTrackRequests ==
    /\ uploading <=> uploads # <<>>
    /\ analyzing <=> analyses # <<>>
    /\ Len(uploads) <= 1
    /\ Len(analyses) <= 1

\* An upload and an analyze request are in flight together, for different
\* files.
C29_Witness ==
    /\ uploading /\ analyzing
    /\ Len(uploads) = 1 /\ Len(analyses) = 1
    /\ analyses[1].metadata.filename # uploads[1].name

====
